---- MODULE Spec2Model ----
(***************************************************************************)
(* A model of padbound: the Controller orchestrator, its MIDIInterface     *)
(* (background input thread and bounded queue), the ControllerState store, *)
(* the CallbackManager and the bundled plugins, as far as the inbound      *)
(* pipeline, the feedback path and the programmatic set_state path go.     *)
(*                                                                         *)
(* Python's None is the string "None"; an Optional[int] that is None is    *)
(* NoValue; an Optional[bool] is one of "True", "False", "None".           *)
(* Each plugin is represented by a few of its controls, one per kind.      *)
(***************************************************************************)
EXTENDS Integers, Sequences, FiniteSets, TLC

VARIABLES
    plugin,        \* Controller._plugin (name of the plugin instance)
    strict_mode,   \* Controller._strict_mode
    config,        \* Controller._controller_config (one entry for "pad_*")
    connected,     \* Controller._connected
    midi,          \* Controller._midi is not None
    state,         \* Controller._state is not None
    active_banks,  \* ControllerState._bank_state._active_banks: control type -> bank id
    ctl,           \* ControllerState._controls: id -> [def, st]
    cbs,           \* CallbackManager tables
    pl,            \* plugin instance attributes
    input_port,    \* MIDIInterface._input_port is open
    output_port,   \* MIDIInterface._output_port is open
    running,       \* MIDIInterface._running (Event)
    thread,        \* the input thread is alive
    queue,         \* MIDIInterface._message_queue
    dropped,       \* MIDIInterface._dropped_messages
    processed,     \* MIDIInterface._processed_messages
    pc,            \* where the application thread is
    count,         \* local `count` of process_pending_messages
    device,        \* environment: messages the hardware may emit
    budget,        \* environment: how many more messages the hardware emits
    calls,         \* environment: how many more API calls the application makes
    regs,          \* environment: how many more callbacks the application registers
    arrived,       \* ghost: number of messages read from the port so far
    enq,           \* ghost: arrival tags of the messages put on the queue
    deliv,         \* ghost: arrival tags handed to the handler, in order
    ev,            \* ghost: what the last handled message did
    tally,         \* ghost: per-control counters of the inbound pipeline
    api            \* ghost: the last programmatic call and its outcome

vars == <<plugin, strict_mode, config, connected, midi, state, active_banks, ctl, cbs, pl,
          input_port, output_port, running, thread, queue, dropped, processed,
          pc, count, device, budget, calls, regs, arrived, enq, deliv,
          ev, tally, api>>

----------------------------------------------------------------------------
(* Bounds of the exploration *)

MaxArrivals == 2
MaxCalls == 2
MaxTurns == 3
MaxCallbacks == 4
FloodExtra == 2

(* Constants of the program *)

QueueMaxSize == 1000
FloodSize == 1500
NoValue == -1
EncoderCenter == 64

None == "None"

Min(a, b) == IF a < b THEN a ELSE b
Max(a, b) == IF a > b THEN a ELSE b
Range(s) == {s[i] : i \in 1..Len(s)}
Truthy(b) == b = "True"
PyBool(b) == IF b THEN "True" ELSE "False"
PyNot(b) == PyBool(~Truthy(b))

----------------------------------------------------------------------------
(* MIDI messages: type, channel, note or controller number, velocity or value *)

Msg(t, ch, n, v) == [type |-> t, channel |-> ch, num |-> n, val |-> v, data |-> <<>>]

Plugins == {"example_pad", "apc", "atom", "xtouch", "xjam"}

(* "banked" is a plugin of an application: the example pad controller with  *)
(* get_capabilities reporting supports_bank_feedback and get_bank_mappings   *)
(* overridden to name the note its button sends as the switch to bank_2     *)

(* ControlCapabilities and ControlDefinition of the representative controls *)

Caps(fb, req, col, pal) ==
    [supports_feedback |-> fb, requires_feedback |-> req, supports_color |-> col,
     has_palette |-> pal # {}, color_palette |-> pal, supports_value_setting |-> FALSE]

Def(id, ty, cat, modes, caps) ==
    [control_id |-> id, control_type |-> ty, category |-> cat, type_modes |-> modes,
     capabilities |-> caps, on_color |-> None, off_color |-> None,
     on_led_mode |-> None, off_led_mode |-> None, min_value |-> 0, max_value |-> 127]

BothModes == {"toggle", "momentary"}

get_control_definitions(p) ==
    CASE p \in {"example_pad", "banked"} ->
           << Def("pad_1", "toggle", None, {}, Caps(TRUE, TRUE, TRUE, {"off", "red", "green", "yellow"})),
              Def("fader_1", "continuous", None, {}, Caps(FALSE, FALSE, FALSE, {})),
              Def("button_1", "momentary", None, {}, Caps(TRUE, TRUE, FALSE, {})) >>
      [] p = "apc" ->
           << Def("pad_0_0", "toggle", "pad", BothModes, Caps(TRUE, TRUE, TRUE, {})),
              Def("fader_1", "continuous", "fader", {}, Caps(FALSE, FALSE, FALSE, {})),
              Def("fader_9", "continuous", "fader", {}, Caps(FALSE, FALSE, FALSE, {})) >>
      [] p = "atom" ->
           << Def("pad_1", "toggle", "pad", BothModes, Caps(TRUE, TRUE, TRUE, {})),
              Def("encoder_1", "continuous", "encoder", {}, Caps(FALSE, FALSE, FALSE, {})) >>
      [] p = "xtouch" ->
           << Def("pad_1@layer_a", "toggle", "pad", BothModes, Caps(TRUE, TRUE, FALSE, {})),
              Def("knob_1@layer_a", "continuous", "knob", {}, Caps(TRUE, FALSE, FALSE, {})) >>
      [] p = "xjam" ->
           << Def("pad_1@bank_1", "toggle", "pad", BothModes, Caps(FALSE, FALSE, FALSE, {})),
              Def("knob_1@bank_1", "continuous", "knob", {}, Caps(FALSE, FALSE, FALSE, {})) >>
      [] p = "lpd8" ->
           << Def("pad_1@bank_1", "toggle", None, BothModes, Caps(TRUE, FALSE, TRUE, {})),
              Def("pad_1@bank_2", "toggle", None, BothModes, Caps(TRUE, FALSE, TRUE, {})),
              Def("knob_1@bank_1", "continuous", None, {}, Caps(FALSE, FALSE, FALSE, {})),
              Def("knob_1@bank_2", "continuous", None, {}, Caps(FALSE, FALSE, FALSE, {})) >>

ControlIds(p) == {d.control_id : d \in Range(get_control_definitions(p))}

PadId(p) == get_control_definitions(p)[1].control_id

(* MIDIMapping rows of get_input_mappings for the representative controls *)

Mapping(t, ch, n, id, sig) ==
    [message_type |-> t, channel |-> ch, num |-> n, control_id |-> id, signal_type |-> sig]

get_input_mappings(p) ==
    CASE p \in {"example_pad", "banked"} ->
           { Mapping("note_on", 0, 36, "pad_1", "default"),
             Mapping("control_change", 0, 1, "fader_1", "default"),
             Mapping("note_on", 0, 52, "button_1", "default") }
      [] p = "apc" ->
           { Mapping("note_on", 0, 0, "pad_0_0", "note"),
             Mapping("note_off", 0, 0, "pad_0_0", "note"),
             Mapping("control_change", 0, 48, "fader_1", "default"),
             Mapping("control_change", 0, 56, "fader_9", "default") }
      [] p = "atom" ->
           { Mapping("note_on", 0, 36, "pad_1", "note"),
             Mapping("note_off", 0, 36, "pad_1", "note"),
             Mapping("control_change", 0, 14, "encoder_1", "default") }
      [] p = "xtouch" ->
           { Mapping("note_on", 10, 8, "pad_1@layer_a", "note"),
             Mapping("note_off", 10, 8, "pad_1@layer_a", "note"),
             Mapping("control_change", 10, 1, "knob_1@layer_a", "cc") }
      [] p \in {"xjam", "lpd8"} -> {}

----------------------------------------------------------------------------
(* Control state snapshots and the three control classes *)

(* first_discovered_at 0 stands for None; normalized_value is the fraction  *)
(* << numerator, denominator >>, << 0, 0 >> standing for None                *)
ControlState(disc, v, on, col, led) ==
    [is_discovered |-> disc, value |-> v, is_on |-> on, color |-> col, led_mode |-> led,
     first_discovered_at |-> 0, normalized_value |-> << 0, 0 >>]

(* datetime.now(): a clock that advances with every arrival and delivery *)
Now == arrived + Len(deliv) + 1

InitialState(d) ==
    IF d.control_type = "continuous"
    THEN ControlState(FALSE, NoValue, None, None, None)
    ELSE ControlState(FALSE, NoValue, "False", d.off_color, None)

Toggle_compute_new_state(d, st, value) ==
    LET new_is_on == IF value > 0 THEN PyNot(st.is_on) ELSE st.is_on
    IN  ControlState(FALSE, value, new_is_on,
                     IF Truthy(new_is_on) THEN d.on_color ELSE d.off_color,
                     IF Truthy(new_is_on) THEN d.on_led_mode ELSE d.off_led_mode)

Momentary_compute_new_state(d, st, value) ==
    LET is_triggered == value > 0
    IN  ControlState(FALSE, value, PyBool(is_triggered),
                     IF is_triggered THEN d.on_color ELSE d.off_color,
                     IF is_triggered THEN d.on_led_mode ELSE d.off_led_mode)

(* A continuous transition that stores the raw value as the normalized one *)
Continuous_raw(d, st, value) ==
    [ControlState(FALSE, value, None, None, None) EXCEPT !.normalized_value = << value, 1 >>]

(* (value - min) / range clamped to [0.0, 1.0]; 0.0 when the range is empty *)
Continuous_compute_new_state(d, st, value) ==
    LET value_range == d.max_value - d.min_value
        normalized == IF value_range > 0
                      THEN << Max(0, Min(value_range, value - d.min_value)), value_range >>
                      ELSE << 0, 1 >>
    IN  [ControlState(FALSE, value, None, None, None) EXCEPT !.normalized_value = normalized]

compute_new_state(d, st, value) ==
    CASE d.control_type = "toggle" -> Toggle_compute_new_state(d, st, value)
      [] d.control_type = "momentary" -> Momentary_compute_new_state(d, st, value)
      [] OTHER -> Continuous_compute_new_state(d, st, value)

update_from_midi(c, value) ==
    LET first_discovered_at == IF ~c.st.is_discovered THEN Now ELSE c.st.first_discovered_at
    IN  [c EXCEPT !.st = [compute_new_state(c.def, c.st, value) EXCEPT
                             !.is_discovered = TRUE,
                             !.first_discovered_at = first_discovered_at]]

(* ControllerState.update_state and set_control_state on a registered control *)

update_state(controls, id, value) ==
    [controls EXCEPT ![id] = update_from_midi(controls[id], value)]

set_control_state(controls, id, new_state) ==
    [controls EXCEPT ![id].st = new_state]

validate_color(controls, id, color) ==
    IF id \notin DOMAIN controls THEN FALSE
    ELSE LET caps == controls[id].def.capabilities
         IN  IF ~caps.supports_color THEN FALSE
             ELSE IF ~caps.has_palette THEN TRUE
             ELSE color \in caps.color_palette

----------------------------------------------------------------------------
(* Plugin instance attributes *)

PluginAttrs == [last_active_bank |-> None, has_send |-> FALSE,
                pending_feedback |-> <<>>, encoder_positions |-> <<>>,
                current_pad_modes |-> <<>>]

Put(f, k, v) == [x \in DOMAIN f \cup {k} |-> IF x = k THEN v ELSE f[x]]
Pop(f, k) == [x \in DOMAIN f \ {k} |-> f[x]]
Get(f, k, dflt) == IF k \in DOMAIN f THEN f[k] ELSE dflt

(* MIDIMapping.matches and ControllerPlugin._extract_value *)

matches(mapping, msg) ==
    /\ msg.type = mapping.message_type
    /\ msg.channel = mapping.channel
    /\ msg.num = mapping.num

extract_value(msg) == msg.val

NoResult == [hit |-> FALSE, control_id |-> None, value |-> 0, signal_type |-> None]
Result(id, v, sig) == [hit |-> TRUE, control_id |-> id, value |-> v, signal_type |-> sig]

(* ControllerPlugin.translate_input: the first mapping that matches *)
default_translate_input(p, msg) ==
    LET hits == {m \in get_input_mappings(p) : matches(m, msg)}
    IN  IF hits = {} \/ msg.type = "sysex" THEN NoResult
        ELSE LET m == CHOOSE m \in hits : TRUE
             IN  Result(m.control_id, extract_value(msg), m.signal_type)

Translated(res, pls, sends) ==
    [result |-> res, pl |-> pls, sends |-> sends, taken |-> <<>>]

(* MIDIInterface.receive_message(timeout): one get() on the inbound queue,  *)
(* None when nothing is there before the timeout                            *)
receive_message(q) ==
    IF q = <<>> THEN [msg |-> Msg(None, 0, 0, 0), taken |-> <<>>]
    ELSE [msg |-> Head(q).msg, taken |-> << Head(q) >>]

(* The inbound queue as a hook sees it while a message is being handled:    *)
(* get_nowait has taken that message already                                *)
Pending == IF queue = <<>> THEN <<>> ELSE Tail(queue)

(* PreSonus Atom: relative encoder values become deltas *)
atom_translate_input(pls, msg) ==
    IF msg.type = "control_change" /\ msg.channel = 0 /\ msg.num = 14
    THEN LET delta == IF 1 <= msg.val /\ msg.val <= 63 THEN msg.val
                      ELSE IF 64 <= msg.val /\ msg.val <= 127 THEN -(msg.val - 64)
                      ELSE 0
         IN  Translated(Result("encoder_1", delta, "relative"), pls, <<>>)
    ELSE Translated(default_translate_input("atom", msg), pls, <<>>)

(* X-Touch Mini: a pad's note_off releases the deferred LED message *)
xtouch_translate_input(pls, msg) ==
    LET id == IF msg.num = 8 THEN "pad_1@layer_a" ELSE None
    IN  IF msg.type = "note_off" /\ msg.channel = 10 /\ id # None
           /\ id \in DOMAIN pls.pending_feedback
        THEN LET is_on == pls.pending_feedback[id]
                 out == IF pls.has_send
                        THEN << Msg("note_on", 10, 8, IF is_on THEN 127 ELSE 0) >>
                        ELSE <<>>
             IN  Translated(NoResult, [pls EXCEPT !.pending_feedback = Pop(@, id)], out)
        ELSE Translated(default_translate_input("xtouch", msg),
                        [pls EXCEPT !.last_active_bank =
                            IF msg.type \in {"note_on", "note_off", "control_change"}
                            THEN "layer_a" ELSE @],
                        <<>>)

(* AKAI LPD8 MK2: the channel of the message names the bank (BANK_CHANNELS), *)
(* the note or CC the control of that bank.  A channel outside 0..3 makes   *)
(* the plugin ask the device; with no answer it takes program 1.            *)
lpd8_route_to_active_bank(pls, msg) ==
    IF pls.last_active_bank = None THEN NoResult
    ELSE IF msg.type \in {"note_on", "note_off"} /\ msg.num = 36
         THEN Result("pad_1@" \o pls.last_active_bank, msg.val, "note")
    ELSE IF msg.type = "control_change" /\ msg.num = 1
         THEN Result("knob_1@" \o pls.last_active_bank, msg.val, "default")
    ELSE NoResult

(* _query_active_program: the query goes out and one message is taken off  *)
(* the queue; program 1 unless that message is the answer                   *)
lpd8_query_active_program(q) ==
    LET r == receive_message(q)
    IN  [program |-> IF r.msg.type = "sysex" /\ r.msg.val \in 1..2 THEN r.msg.val ELSE 1,
         taken |-> r.taken]

lpd8_translate_input(pls, msg) ==
    LET known == msg.type # "sysex" /\ msg.channel \in 0..3
        asks == msg.type # "sysex" /\ ~known /\ pls.has_send
        answer == lpd8_query_active_program(Pending)
        bank == IF msg.type = "sysex" THEN pls.last_active_bank
                ELSE IF msg.channel = 0 THEN "bank_1"
                ELSE IF msg.channel = 1 THEN "bank_2"
                ELSE IF msg.channel = 2 THEN "bank_3"
                ELSE IF msg.channel = 3 THEN "bank_4"
                ELSE IF asks THEN (IF answer.program = 2 THEN "bank_2" ELSE "bank_1")
                ELSE pls.last_active_bank
        pls2 == [pls EXCEPT !.last_active_bank = bank]
        out == IF asks THEN << Msg("sysex", 0, 4, 0) >> ELSE <<>>
    IN  [Translated(lpd8_route_to_active_bank(pls2, msg), pls2, out)
            EXCEPT !.taken = IF asks THEN answer.taken ELSE <<>>]

(* Xjam: the channel selects the bank, the note or CC selects the control *)
xjam_route_to_active_bank(pls, msg) ==
    IF pls.last_active_bank = None THEN NoResult
    ELSE IF msg.type \in {"note_on", "note_off"} /\ msg.num = 35
         THEN Result("pad_1@" \o pls.last_active_bank, msg.val, "note")
    ELSE IF msg.type = "control_change" /\ msg.num = 28
         THEN Result("knob_1@" \o pls.last_active_bank, msg.val, "cc")
    ELSE NoResult

xjam_translate_input(pls, msg) ==
    LET bank == IF msg.type = "sysex" THEN None
                ELSE IF msg.channel = 0 THEN "bank_1"
                ELSE IF msg.channel = 1 THEN "bank_2"
                ELSE IF msg.channel = 2 THEN "bank_3"
                ELSE None
        switch == bank # None /\ bank # pls.last_active_bank
        pls2 == IF switch THEN [pls EXCEPT !.last_active_bank = bank] ELSE pls
        out == IF switch /\ pls.has_send
               THEN << Msg("sysex", 0, 0, 0), Msg("sysex", 0, 1, 0) >>
               ELSE <<>>
    IN  Translated(xjam_route_to_active_bank(pls2, msg), pls2, out)

translate_input(p, pls, msg) ==
    CASE p = "atom" -> atom_translate_input(pls, msg)
      [] p = "xtouch" -> xtouch_translate_input(pls, msg)
      [] p = "xjam" -> xjam_translate_input(pls, msg)
      [] p = "lpd8" -> lpd8_translate_input(pls, msg)
      [] OTHER -> Translated(default_translate_input(p, msg), pls, <<>>)

(* ControllerPlugin.get_bank_mappings: empty for every bundled plugin *)
get_bank_mappings(p) ==
    IF p = "banked"
    THEN {[message_type |-> "note_on", channel |-> 0, num |-> 52, bank_id |-> "bank_2"]}
    ELSE {}

(* ControllerPlugin.translate_bank_switch: the bank of the first mapping     *)
(* that matches, None without one                                           *)
translate_bank_switch(p, msg) ==
    IF \E m \in get_bank_mappings(p) : matches(m, msg)
    THEN (CHOOSE m \in get_bank_mappings(p) : matches(m, msg)).bank_id
    ELSE None

----------------------------------------------------------------------------
(* compute_control_state.  What the hook hands back is one of               *)
(*   "tuple"          a (state-or-None, trigger_callback) pair              *)
(*   "bare_state"     a ControlState that is not wrapped in a pair          *)
(*   "bare_none"      None that is not wrapped in a pair                    *)
(*   "AttributeError" the hook raised                                       *)

Hook(kind, has, st, trig, pls) ==
    [kind |-> kind, has_state |-> has, st |-> st, trigger |-> trig, pl |-> pls]

NoState == ControlState(FALSE, NoValue, None, None, None)

(* Base-class hook: no state of its own, callbacks fire *)
default_compute_control_state(pls, id, value, sig, cur, d) ==
    Hook("tuple", FALSE, NoState, TRUE, pls)

(* A grid hook that leaves every message to the default transition and     *)
(* lets the callbacks fire                                                  *)
apc_always_trigger(pls, id, value, sig, cur, d) ==
    Hook("tuple", FALSE, NoState, TRUE, pls)

apc_compute_control_state(pls, id, value, sig, cur, d) ==
    IF id = "pad_0_0"
    THEN IF d.control_type = "momentary"
         THEN LET on_state == value = 127
              IN  Hook("tuple", TRUE,
                       ControlState(TRUE, value, PyBool(on_state),
                                    IF on_state THEN d.on_color ELSE d.off_color,
                                    IF on_state THEN d.on_led_mode ELSE d.off_led_mode),
                       TRUE, pls)
         ELSE IF d.control_type = "toggle"
         THEN IF value = 127
              THEN LET on_state == PyNot(cur.is_on)
                   IN  Hook("tuple", TRUE,
                            ControlState(TRUE, value, on_state,
                                         IF Truthy(on_state) THEN d.on_color ELSE d.off_color,
                                         IF Truthy(on_state) THEN d.on_led_mode ELSE d.off_led_mode),
                            TRUE, pls)
              ELSE Hook("tuple", FALSE, NoState, FALSE, pls)
         ELSE Hook("tuple", FALSE, NoState, TRUE, pls)
    ELSE Hook("tuple", FALSE, NoState, TRUE, pls)

(* A hook that clamps without keeping the position *)
atom_from_center(pls, id, value, sig, cur, d) ==
    IF sig = "relative" /\ id = "encoder_1"
    THEN Hook("tuple", TRUE,
              ControlState(FALSE, Max(0, Min(127, EncoderCenter + value)), None, None, None),
              TRUE, pls)
    ELSE Hook("tuple", FALSE, NoState, TRUE, pls)

atom_compute_control_state(pls, id, value, sig, cur, d) ==
    IF sig = "relative" /\ id = "encoder_1"
    THEN LET current_pos == Get(pls.encoder_positions, id, EncoderCenter)
             new_pos == Max(0, Min(127, current_pos + value))
         IN  Hook("tuple", TRUE,
                  [ControlState(FALSE, new_pos, None, None, None) EXCEPT
                      !.normalized_value = << new_pos, 127 >>],
                  TRUE,
                  [pls EXCEPT !.encoder_positions = Put(@, id, new_pos)])
    ELSE Hook("tuple", FALSE, NoState, TRUE, pls)

(* X-Touch Mini: returns a bare state or a bare None, and reads            *)
(* control_definition.led_mode, which ControlDefinition does not have       *)
xtouch_compute_control_state(pls, id, value, sig, cur, d) ==
    IF id = "pad_1@layer_a" /\ d.control_type = "toggle" /\ value > 0
    THEN LET new_is_on == ~Truthy(cur.is_on)
             pls2 == [pls EXCEPT !.pending_feedback = Put(@, id, new_is_on)]
         IN  IF new_is_on
             THEN Hook("AttributeError", FALSE, NoState, FALSE, pls2)
             ELSE Hook("bare_state", TRUE,
                       ControlState(FALSE, value, "False", d.off_color, None), FALSE, pls2)
    ELSE Hook("bare_none", FALSE, NoState, FALSE, pls)

(* Xjam: the same two defects; is_on follows the velocity *)
xjam_compute_control_state(pls, id, value, sig, cur, d) ==
    IF id # "pad_1@bank_1" THEN Hook("bare_none", FALSE, NoState, FALSE, pls)
    ELSE IF d.control_type # "toggle" THEN Hook("bare_none", FALSE, NoState, FALSE, pls)
    ELSE IF value > 0 THEN Hook("AttributeError", FALSE, NoState, FALSE, pls)
    ELSE Hook("bare_state", TRUE, ControlState(TRUE, value, "False", d.off_color, None),
              FALSE, pls)

compute_control_state(p, pls, id, value, sig, cur, d) ==
    CASE p = "apc" -> apc_compute_control_state(pls, id, value, sig, cur, d)
      [] p = "atom" -> atom_compute_control_state(pls, id, value, sig, cur, d)
      [] p = "xtouch" -> xtouch_compute_control_state(pls, id, value, sig, cur, d)
      [] p = "xjam" -> xjam_compute_control_state(pls, id, value, sig, cur, d)
      [] OTHER -> default_compute_control_state(pls, id, value, sig, cur, d)

----------------------------------------------------------------------------
(* translate_feedback as the orchestrator calls it: two positional          *)
(* arguments, the control id and a dict.  `keys` are the dict's keys.       *)

StateDict(keys, on, v, col) == [keys |-> keys, is_on |-> on, value |-> v, color |-> col]

Feedback(exc, msgs) == [raises |-> exc, messages |-> msgs]

color_map(color) ==
    CASE color = "off" -> 0
      [] color = "red" -> 5
      [] color = "green" -> 127
      [] color = "yellow" -> 64
      [] OTHER -> 0

example_translate_feedback(pls, id, sd) ==
    IF id = "pad_1"
    THEN LET velocity == IF "color" \in sd.keys THEN color_map(sd.color)
                         ELSE IF "is_on" \in sd.keys
                              THEN (IF Truthy(sd.is_on) THEN 127 ELSE 0)
                         ELSE 0
         IN  Feedback(None, << Msg("note_on", 0, 36, velocity) >>)
    ELSE IF id = "button_1"
    THEN Feedback(None, << Msg("note_on", 0, 52,
                               IF "is_on" \in sd.keys /\ Truthy(sd.is_on) THEN 127 ELSE 0) >>)
    ELSE Feedback(None, <<>>)

xtouch_translate_feedback(pls, id, sd) ==
    LET is_on == "is_on" \in sd.keys /\ Truthy(sd.is_on)
    IN  IF id = "pad_1@layer_a"
        THEN IF id \in DOMAIN pls.pending_feedback THEN Feedback(None, <<>>)
             ELSE Feedback(None, << Msg("note_on", 10, 8, IF is_on THEN 127 ELSE 0) >>)
        ELSE IF id = "knob_1@layer_a"
        THEN LET value == IF "value" \in sd.keys /\ sd.value # NoValue /\ sd.value # 0
                          THEN sd.value ELSE 64
             IN  Feedback(None, << Msg("control_change", 10, 1, value) >>)
        ELSE Feedback(None, <<>>)

(* APC mini MK2 and Atom declare translate_feedback(control_id, state,      *)
(* definition): the two-argument call fails to bind `definition`           *)
apc_translate_feedback(pls, id, sd) == Feedback("TypeError", <<>>)

atom_translate_feedback(pls, id, sd) == Feedback("TypeError", <<>>)

xjam_translate_feedback(pls, id, sd) == Feedback(None, <<>>)

(* LPD8 MK2: one SysEx with the colours of all eight pads *)
lpd8_translate_feedback(pls, id, sd) ==
    IF id \in {"pad_1@bank_1", "pad_1@bank_2"}
    THEN Feedback(None, << Msg("sysex", 0, 6, 0) >>) ELSE Feedback(None, <<>>)

translate_feedback(p, pls, id, sd) ==
    CASE p \in {"example_pad", "banked"} -> example_translate_feedback(pls, id, sd)
      [] p = "xtouch" -> xtouch_translate_feedback(pls, id, sd)
      [] p = "apc" -> apc_translate_feedback(pls, id, sd)
      [] p = "atom" -> atom_translate_feedback(pls, id, sd)
      [] p = "lpd8" -> lpd8_translate_feedback(pls, id, sd)
      [] OTHER -> xjam_translate_feedback(pls, id, sd)

----------------------------------------------------------------------------
(* APC mini MK2, translate_feedback(control_id, state, definition) as the   *)
(* plugin defines it: the pad LED planes                                    *)

LED_CHANNEL_SOLID == 6
LED_CHANNEL_PULSE == 10
LED_CHANNEL_BLINK == 15

(* LEDMode; frequency 0 stands for None *)
LEDMode(animation_type, frequency) ==
    [animation_type |-> animation_type, frequency |-> frequency]

(* A definition's on_led_mode or off_led_mode that was left unset *)
NoLEDMode == LEDMode(None, 0)

(* RGBColor.from_string on colour names: unknown names parse as white *)
from_string(color) ==
    CASE color \in {"off", "black"} -> << 0, 0, 0 >>
      [] color = "red" -> << 255, 0, 0 >>
      [] color = "green" -> << 0, 255, 0 >>
      [] OTHER -> << 255, 255, 255 >>

(* COLOR_PALETTE, all 128 rows in the dict's order *)
COLOR_PALETTE ==
    << [velocity |-> 0, rgb |-> << 0, 0, 0 >>],
       [velocity |-> 1, rgb |-> << 30, 30, 30 >>],
       [velocity |-> 2, rgb |-> << 127, 127, 127 >>],
       [velocity |-> 3, rgb |-> << 255, 255, 255 >>],
       [velocity |-> 4, rgb |-> << 255, 76, 76 >>],
       [velocity |-> 5, rgb |-> << 255, 0, 0 >>],
       [velocity |-> 6, rgb |-> << 89, 0, 0 >>],
       [velocity |-> 7, rgb |-> << 25, 0, 0 >>],
       [velocity |-> 8, rgb |-> << 255, 189, 108 >>],
       [velocity |-> 9, rgb |-> << 255, 84, 0 >>],
       [velocity |-> 10, rgb |-> << 89, 29, 0 >>],
       [velocity |-> 11, rgb |-> << 39, 27, 0 >>],
       [velocity |-> 12, rgb |-> << 255, 255, 76 >>],
       [velocity |-> 13, rgb |-> << 255, 255, 0 >>],
       [velocity |-> 14, rgb |-> << 89, 89, 0 >>],
       [velocity |-> 15, rgb |-> << 25, 25, 0 >>],
       [velocity |-> 16, rgb |-> << 136, 255, 76 >>],
       [velocity |-> 17, rgb |-> << 84, 255, 0 >>],
       [velocity |-> 18, rgb |-> << 29, 89, 0 >>],
       [velocity |-> 19, rgb |-> << 20, 43, 0 >>],
       [velocity |-> 20, rgb |-> << 76, 255, 76 >>],
       [velocity |-> 21, rgb |-> << 0, 255, 0 >>],
       [velocity |-> 22, rgb |-> << 0, 89, 0 >>],
       [velocity |-> 23, rgb |-> << 0, 25, 0 >>],
       [velocity |-> 24, rgb |-> << 76, 255, 94 >>],
       [velocity |-> 25, rgb |-> << 0, 255, 25 >>],
       [velocity |-> 26, rgb |-> << 0, 89, 13 >>],
       [velocity |-> 27, rgb |-> << 0, 25, 2 >>],
       [velocity |-> 28, rgb |-> << 76, 255, 136 >>],
       [velocity |-> 29, rgb |-> << 0, 255, 84 >>],
       [velocity |-> 30, rgb |-> << 0, 89, 29 >>],
       [velocity |-> 31, rgb |-> << 0, 31, 18 >>],
       [velocity |-> 32, rgb |-> << 76, 255, 183 >>],
       [velocity |-> 33, rgb |-> << 0, 255, 153 >>],
       [velocity |-> 34, rgb |-> << 0, 89, 53 >>],
       [velocity |-> 35, rgb |-> << 0, 25, 18 >>],
       [velocity |-> 36, rgb |-> << 76, 195, 255 >>],
       [velocity |-> 37, rgb |-> << 0, 255, 255 >>],
       [velocity |-> 38, rgb |-> << 0, 89, 89 >>],
       [velocity |-> 39, rgb |-> << 0, 25, 25 >>],
       [velocity |-> 40, rgb |-> << 76, 136, 255 >>],
       [velocity |-> 41, rgb |-> << 0, 170, 255 >>],
       [velocity |-> 42, rgb |-> << 0, 65, 82 >>],
       [velocity |-> 43, rgb |-> << 0, 16, 25 >>],
       [velocity |-> 44, rgb |-> << 76, 76, 255 >>],
       [velocity |-> 45, rgb |-> << 0, 0, 255 >>],
       [velocity |-> 46, rgb |-> << 0, 0, 89 >>],
       [velocity |-> 47, rgb |-> << 0, 0, 25 >>],
       [velocity |-> 48, rgb |-> << 135, 76, 255 >>],
       [velocity |-> 49, rgb |-> << 84, 0, 255 >>],
       [velocity |-> 50, rgb |-> << 25, 0, 100 >>],
       [velocity |-> 51, rgb |-> << 15, 0, 48 >>],
       [velocity |-> 52, rgb |-> << 255, 76, 255 >>],
       [velocity |-> 53, rgb |-> << 255, 0, 255 >>],
       [velocity |-> 54, rgb |-> << 89, 0, 89 >>],
       [velocity |-> 55, rgb |-> << 25, 0, 25 >>],
       [velocity |-> 56, rgb |-> << 255, 76, 135 >>],
       [velocity |-> 57, rgb |-> << 255, 0, 84 >>],
       [velocity |-> 58, rgb |-> << 89, 0, 29 >>],
       [velocity |-> 59, rgb |-> << 48, 0, 24 >>],
       [velocity |-> 60, rgb |-> << 255, 25, 0 >>],
       [velocity |-> 61, rgb |-> << 153, 53, 0 >>],
       [velocity |-> 62, rgb |-> << 121, 81, 0 >>],
       [velocity |-> 63, rgb |-> << 67, 100, 0 >>],
       [velocity |-> 64, rgb |-> << 3, 57, 0 >>],
       [velocity |-> 65, rgb |-> << 0, 87, 53 >>],
       [velocity |-> 66, rgb |-> << 0, 84, 127 >>],
       [velocity |-> 67, rgb |-> << 0, 0, 255 >>],
       [velocity |-> 68, rgb |-> << 0, 68, 117 >>],
       [velocity |-> 69, rgb |-> << 39, 0, 136 >>],
       [velocity |-> 70, rgb |-> << 72, 0, 120 >>],
       [velocity |-> 71, rgb |-> << 110, 0, 48 >>],
       [velocity |-> 72, rgb |-> << 255, 77, 0 >>],
       [velocity |-> 73, rgb |-> << 255, 148, 0 >>],
       [velocity |-> 74, rgb |-> << 165, 255, 0 >>],
       [velocity |-> 75, rgb |-> << 0, 255, 59 >>],
       [velocity |-> 76, rgb |-> << 0, 199, 255 >>],
       [velocity |-> 77, rgb |-> << 0, 84, 255 >>],
       [velocity |-> 78, rgb |-> << 60, 0, 255 >>],
       [velocity |-> 79, rgb |-> << 163, 0, 186 >>],
       [velocity |-> 80, rgb |-> << 255, 0, 59 >>],
       [velocity |-> 81, rgb |-> << 255, 101, 76 >>],
       [velocity |-> 82, rgb |-> << 255, 148, 76 >>],
       [velocity |-> 83, rgb |-> << 210, 255, 76 >>],
       [velocity |-> 84, rgb |-> << 76, 255, 110 >>],
       [velocity |-> 85, rgb |-> << 76, 220, 255 >>],
       [velocity |-> 86, rgb |-> << 76, 130, 255 >>],
       [velocity |-> 87, rgb |-> << 110, 76, 255 >>],
       [velocity |-> 88, rgb |-> << 195, 76, 210 >>],
       [velocity |-> 89, rgb |-> << 255, 76, 110 >>],
       [velocity |-> 90, rgb |-> << 255, 40, 0 >>],
       [velocity |-> 91, rgb |-> << 180, 100, 0 >>],
       [velocity |-> 92, rgb |-> << 140, 140, 0 >>],
       [velocity |-> 93, rgb |-> << 50, 140, 0 >>],
       [velocity |-> 94, rgb |-> << 0, 140, 60 >>],
       [velocity |-> 95, rgb |-> << 0, 100, 140 >>],
       [velocity |-> 96, rgb |-> << 0, 50, 140 >>],
       [velocity |-> 97, rgb |-> << 60, 0, 140 >>],
       [velocity |-> 98, rgb |-> << 120, 0, 100 >>],
       [velocity |-> 99, rgb |-> << 140, 0, 40 >>],
       [velocity |-> 100, rgb |-> << 255, 0, 48 >>],
       [velocity |-> 101, rgb |-> << 255, 128, 0 >>],
       [velocity |-> 102, rgb |-> << 200, 200, 0 >>],
       [velocity |-> 103, rgb |-> << 80, 200, 0 >>],
       [velocity |-> 104, rgb |-> << 0, 200, 80 >>],
       [velocity |-> 105, rgb |-> << 0, 160, 200 >>],
       [velocity |-> 106, rgb |-> << 0, 80, 200 >>],
       [velocity |-> 107, rgb |-> << 80, 0, 200 >>],
       [velocity |-> 108, rgb |-> << 160, 0, 160 >>],
       [velocity |-> 109, rgb |-> << 200, 0, 80 >>],
       [velocity |-> 110, rgb |-> << 255, 180, 180 >>],
       [velocity |-> 111, rgb |-> << 255, 220, 180 >>],
       [velocity |-> 112, rgb |-> << 255, 255, 180 >>],
       [velocity |-> 113, rgb |-> << 200, 255, 180 >>],
       [velocity |-> 114, rgb |-> << 180, 255, 200 >>],
       [velocity |-> 115, rgb |-> << 180, 255, 255 >>],
       [velocity |-> 116, rgb |-> << 180, 200, 255 >>],
       [velocity |-> 117, rgb |-> << 200, 180, 255 >>],
       [velocity |-> 118, rgb |-> << 255, 180, 255 >>],
       [velocity |-> 119, rgb |-> << 255, 180, 220 >>],
       [velocity |-> 120, rgb |-> << 180, 60, 0 >>],
       [velocity |-> 121, rgb |-> << 100, 80, 0 >>],
       [velocity |-> 122, rgb |-> << 60, 80, 0 >>],
       [velocity |-> 123, rgb |-> << 0, 80, 40 >>],
       [velocity |-> 124, rgb |-> << 0, 60, 80 >>],
       [velocity |-> 125, rgb |-> << 0, 40, 80 >>],
       [velocity |-> 126, rgb |-> << 40, 0, 80 >>],
       [velocity |-> 127, rgb |-> << 80, 0, 60 >>] >>

(* Squared distance; 0 exactly for equal colours, as the hsv distance of    *)
(* the source is                                                            *)
distance(a, b) ==
    (a[1] - b[1]) * (a[1] - b[1]) + (a[2] - b[2]) * (a[2] - b[2])
        + (a[3] - b[3]) * (a[3] - b[3])

(* A lookup that keeps the last row at the least distance *)
find_last_nearest(rgb) ==
    LET best == CHOOSE i \in 1..Len(COLOR_PALETTE) :
                    /\ \A j \in 1..Len(COLOR_PALETTE) :
                          distance(rgb, COLOR_PALETTE[i].rgb) <= distance(rgb, COLOR_PALETTE[j].rgb)
                    /\ \A j \in (i + 1)..Len(COLOR_PALETTE) :
                          distance(rgb, COLOR_PALETTE[j].rgb) > distance(rgb, COLOR_PALETTE[i].rgb)
    IN  COLOR_PALETTE[best].velocity

(* _find_nearest_palette_color: the first row at the least distance *)
find_nearest_palette_color(rgb) ==
    LET best == CHOOSE i \in 1..Len(COLOR_PALETTE) :
                    /\ \A j \in 1..Len(COLOR_PALETTE) :
                          distance(rgb, COLOR_PALETTE[i].rgb) <= distance(rgb, COLOR_PALETTE[j].rgb)
                    /\ \A j \in 1..(i - 1) :
                          distance(rgb, COLOR_PALETTE[j].rgb) > distance(rgb, COLOR_PALETTE[i].rgb)
    IN  COLOR_PALETTE[best].velocity

get_led_mode_channel(led_mode) ==
    IF led_mode.animation_type = "pulse"
    THEN IF led_mode.frequency >= 8 THEN 7
         ELSE IF led_mode.frequency >= 4 THEN 8
         ELSE IF led_mode.frequency >= 2 THEN 9
         ELSE LED_CHANNEL_PULSE
    ELSE IF led_mode.animation_type = "blink"
    THEN IF led_mode.frequency >= 12 THEN 11
         ELSE IF led_mode.frequency >= 8 THEN 12
         ELSE IF led_mode.frequency >= 4 THEN 13
         ELSE IF led_mode.frequency >= 2 THEN 14
         ELSE LED_CHANNEL_BLINK
    ELSE LED_CHANNEL_SOLID

(* A split that leaves the whole channel in the low byte *)
to_sysex_bytes_whole(rgb) == << 0, rgb[1], 0, rgb[2], 0, rgb[3] >>

(* LPD8MK2RGBColor.to_sysex_bytes_split: hi = value // 128, lo = value % 128 *)
to_sysex_bytes_split(rgb) ==
    << rgb[1] \div 128, rgb[1] % 128, rgb[2] \div 128, rgb[2] % 128,
       rgb[3] \div 128, rgb[3] % 128 >>

(* APCminiMK2RGBColor.to_sysex_bytes_msb_lsb and _build_pad_rgb_sysex *)
to_sysex_bytes_msb_lsb(rgb) ==
    << (rgb[1] \div 128) % 128, rgb[1] % 128, (rgb[2] \div 128) % 128, rgb[2] % 128,
       (rgb[3] \div 128) % 128, rgb[3] % 128 >>

build_pad_rgb_sysex(pad_note, rgb) ==
    [Msg("sysex", 0, pad_note, 0) EXCEPT
        !.data = << 71, 127, 79, 36, 0, 8, pad_note, pad_note >> \o to_sysex_bytes_msb_lsb(rgb)]

(* A pad branch that keeps no record of animated writes *)
apc_pad_feedback_untracked(pls, id, st, d) ==
    LET color == IF st.color # None THEN st.color ELSE "off"
        is_on == Truthy(st.is_on)
        definition_led_mode == IF is_on THEN d.on_led_mode ELSE d.off_led_mode
        animation_type == IF definition_led_mode # NoLEDMode
                          THEN definition_led_mode.animation_type ELSE "solid"
        rgb_color == from_string(color)
        current_mode == Get(pls.current_pad_modes, id, "solid")
    IN  IF animation_type \in {"pulse", "blink"}
        THEN IF is_on
             THEN [messages |-> << Msg("note_on", get_led_mode_channel(definition_led_mode), 0,
                                       find_nearest_palette_color(rgb_color)) >>,
                   pl |-> pls]
             ELSE [messages |-> <<>>, pl |-> pls]
        ELSE [messages |-> (IF current_mode \in {"pulse", "blink"}
                            THEN << Msg("note_on", LED_CHANNEL_SOLID, 0, 0) >> ELSE <<>>)
                           \o << build_pad_rgb_sysex(0, rgb_color) >>,
              pl |-> [pls EXCEPT !.current_pad_modes = Put(@, id, "solid")]]

(* The pad branch, for the pad at note 0.  The result carries the plugin's  *)
(* attributes after the call.                                               *)
apc_pad_feedback(pls, id, st, d) ==
    LET color == IF st.color # None THEN st.color ELSE "off"
        is_on == Truthy(st.is_on)
        definition_led_mode == IF is_on THEN d.on_led_mode ELSE d.off_led_mode
        animation_type == IF definition_led_mode # NoLEDMode
                          THEN definition_led_mode.animation_type ELSE "solid"
        rgb_color == from_string(color)
        current_mode == Get(pls.current_pad_modes, id, "solid")
    IN  IF animation_type \in {"pulse", "blink"}
        THEN IF is_on
             THEN [messages |-> << Msg("note_on", get_led_mode_channel(definition_led_mode), 0,
                                       find_nearest_palette_color(rgb_color)) >>,
                   pl |-> [pls EXCEPT !.current_pad_modes = Put(@, id, animation_type)]]
             ELSE [messages |-> <<>>, pl |-> pls]
        ELSE [messages |-> (IF current_mode \in {"pulse", "blink"}
                            THEN << Msg("note_on", LED_CHANNEL_SOLID, 0, 0) >> ELSE <<>>)
                           \o << build_pad_rgb_sysex(0, rgb_color) >>,
              pl |-> [pls EXCEPT !.current_pad_modes = Put(@, id, "solid")]]

----------------------------------------------------------------------------
(* CallbackManager.  A registered callback is [name, signal_type, raises]:  *)
(* signal_type is the registration's filter (None accepts every signal),    *)
(* raises says whether the user's function throws when it is called.        *)

NoCallbacks == [control_callbacks |-> <<>>, category_callbacks |-> <<>>,
                type_callbacks |-> <<>>, global_callbacks |-> <<>>,
                bank_callbacks |-> <<>>]

(* A registered (callback, signal_type) pair.  What the callback does when   *)
(* it runs: it may raise, and it may call back into the registry (does).    *)
Callback(name, sig, raises) ==
    [name |-> name, signal_type |-> sig, raises |-> raises, does |-> None]

register_callback(cb, id, c) ==
    [cb EXCEPT !.control_callbacks = Put(@, id, Append(Get(@, id, <<>>), c))]

register_category_callback(cb, cat, c) ==
    [cb EXCEPT !.category_callbacks = Put(@, cat, Append(Get(@, cat, <<>>), c))]

register_type_callback(cb, ty, c) ==
    [cb EXCEPT !.type_callbacks = Put(@, ty, Append(Get(@, ty, <<>>), c))]

register_global(cb, c) ==
    [cb EXCEPT !.global_callbacks = Append(@, c)]

register_bank(cb, ty, c) ==
    [cb EXCEPT !.bank_callbacks = Put(@, ty, Append(Get(@, ty, <<>>), c))]

(* A _safe_call without its except clause: the callback's exception leaves  *)
unsafe_call(c, tier) ==
    [name |-> c.name, tier |-> tier, raised |-> c.raises, escapes |-> c.raises,
     does |-> c.does]

(* _safe_call: the callback runs; whatever it throws is logged, not re-raised *)
safe_call(c, tier) ==
    [name |-> c.name, tier |-> tier, raised |-> c.raises, escapes |-> FALSE,
     does |-> c.does]

(* A tier loop that calls every callback of the list, whatever its filter *)
RECURSIVE run_unfiltered(_, _, _)
run_unfiltered(list, tier, sig) ==
    IF list = <<>> THEN <<>>
    ELSE << safe_call(Head(list), tier) >> \o run_unfiltered(Tail(list), tier, sig)

RECURSIVE run_callbacks(_, _, _)
run_callbacks(list, tier, sig) ==
    IF list = <<>> THEN <<>>
    ELSE LET c == Head(list)
         IN  IF c.signal_type = None \/ c.signal_type = sig
             THEN LET r == safe_call(c, tier)
                  IN  IF r.escapes THEN << r >>
                      ELSE << r >> \o run_callbacks(Tail(list), tier, sig)
             ELSE run_callbacks(Tail(list), tier, sig)

Escaped(calls_) == calls_ # <<>> /\ calls_[Len(calls_)].escapes

(* One tier after the other; a tier is skipped once an exception is in flight *)
then_tier(done, list, tier, sig) ==
    IF Escaped(done) THEN done ELSE done \o run_callbacks(list, tier, sig)

(* unregister_*: list.pop(i) at the first entry holding the callback *)
RECURSIVE remove_first(_, _)
remove_first(list, name) ==
    IF list = <<>> THEN <<>>
    ELSE IF Head(list).name = name THEN Tail(list)
    ELSE << Head(list) >> \o remove_first(Tail(list), name)

unregister_global(cb, name) ==
    [cb EXCEPT !.global_callbacks = remove_first(@, name)]

unregister_control(cb, id, name) ==
    IF id \in DOMAIN cb.control_callbacks
    THEN [cb EXCEPT !.control_callbacks = Put(@, id, remove_first(Get(@, id, <<>>), name))]
    ELSE cb

(* What an invoked callback did to the registry while it ran: it registered *)
(* a new callback globally or on the pad, unregistered itself, or           *)
(* unregistered the global callback registered last                         *)
effect(cb, call) ==
    CASE call.does = "on_global" ->
           register_global(cb, Callback(call.name + MaxCallbacks, None, FALSE))
      [] call.does = "on_control" ->
           register_callback(cb, PadId(plugin),
                             Callback(call.name + MaxCallbacks, None, FALSE))
      [] call.does = "off_self" ->
           IF call.tier = "global" THEN unregister_global(cb, call.name)
           ELSE unregister_control(cb, PadId(plugin), call.name)
      [] call.does = "off_last" ->
           IF cb.global_callbacks = <<>> THEN cb
           ELSE unregister_global(cb, cb.global_callbacks[Len(cb.global_callbacks)].name)
      [] OTHER -> cb

RECURSIVE effects(_, _)
effects(cb, done) ==
    IF done = <<>> THEN cb ELSE effects(effect(cb, Head(done)), Tail(done))

(* A dispatcher that reads each tier's list when it reaches the tier *)
on_control_change_live(cb, id, ctype, sig, category) ==
    LET t1 == then_tier(<<>>, Get(cb.control_callbacks, id, <<>>), "control", sig)
        t2 == then_tier(t1, IF category # None
                            THEN Get(effects(cb, t1).category_callbacks, category, <<>>)
                            ELSE <<>>, "category", sig)
        t3 == then_tier(t2, Get(effects(cb, t2).type_callbacks, ctype, <<>>), "type", sig)
    IN  then_tier(t3, effects(cb, t3).global_callbacks, "global", sig)

(* A dispatcher that walks the tiers from the least specific to the most    *)
global_first(cb, id, ctype, sig, category) ==
    then_tier(then_tier(then_tier(then_tier(<<>>,
        cb.global_callbacks, "global", sig),
        Get(cb.type_callbacks, ctype, <<>>), "type", sig),
        IF category # None THEN Get(cb.category_callbacks, category, <<>>) ELSE <<>>,
        "category", sig),
        Get(cb.control_callbacks, id, <<>>), "control", sig)

on_control_change(cb, id, ctype, sig, category) ==
    LET control_cbs == Get(cb.control_callbacks, id, <<>>)
        category_cbs == IF category # None THEN Get(cb.category_callbacks, category, <<>>)
                        ELSE <<>>
        type_cbs == Get(cb.type_callbacks, ctype, <<>>)
        global_cbs == cb.global_callbacks
    IN  then_tier(then_tier(then_tier(then_tier(<<>>,
            control_cbs, "control", sig),
            category_cbs, "category", sig),
            type_cbs, "type", sig),
            global_cbs, "global", sig)

(* CallbackManager.on_bank_change: every bank callback of the control type *)
on_bank_change(cb, ctype) ==
    run_callbacks(Get(cb.bank_callbacks, ctype, <<>>), "bank", None)

(* BankState.set_active_bank: a no-op unless the controller reports banks   *)
supports_bank_feedback(p) == p \in {"lpd8", "banked"}

(* A bank state that stores whatever it is given *)
store_active_bank(p, banks, ctype, bank_id) == Put(banks, ctype, bank_id)

set_active_bank(p, banks, ctype, bank_id) ==
    IF ~supports_bank_feedback(p) THEN banks ELSE Put(banks, ctype, bank_id)

(* BankState.get_active_bank: None unless the controller reports banks *)
get_active_bank(p, banks, ctype) ==
    IF ~supports_bank_feedback(p) THEN None ELSE Get(banks, ctype, None)

----------------------------------------------------------------------------
(* MIDIInterface.send_message through Controller._send_message: what        *)
(* reaches the wire                                                         *)
send_messages(msgs) == IF midi /\ output_port THEN msgs ELSE <<>>

(* Controller._on_midi_message, as one function of the message and the      *)
(* current state.  `escapes` is the exception that leaves the handler,      *)
(* `caught` the ValueError its own except clause logged.                    *)

Handled(controls, pls, out, invoked, escapes, caught, id, written, fb, pre, post) ==
    [ctl |-> controls, pl |-> pls, out |-> out, invoked |-> invoked,
     escapes |-> escapes, caught |-> caught, control_id |-> id,
     written |-> written, fb_called |-> fb, pre |-> pre, post |-> post,
     active_banks |-> active_banks, bank_id |-> None,
     cbs |-> effects(cbs, invoked), taken |-> <<>>]

StateDictOf(st) ==
    StateDict({"is_on", "value", "color", "normalized_value", "led_mode",
               "definition_led_mode"}, st.is_on, st.value, st.color)

(* ... the auto-feedback block: translate_feedback and the sends *)
after_callbacks(id, hook, out0, controls2, invoked, pre, fb) ==
    Handled(controls2, hook.pl, out0 \o send_messages(fb.messages), invoked,
            fb.raises, None, id, TRUE, TRUE, pre, controls2[id].st)

(* A handler that sends feedback only for a message that changed is_on or   *)
(* color                                                                    *)
feedback_on_change(id, hook, out0, controls2, invoked, pre) ==
    IF controls2[id].def.capabilities.requires_feedback
       /\ (pre.is_on # controls2[id].st.is_on \/ pre.color # controls2[id].st.color)
    THEN after_callbacks(id, hook, out0, controls2, invoked, pre,
                         translate_feedback(plugin, hook.pl, id,
                                            StateDictOf(controls2[id].st)))
    ELSE Handled(controls2, hook.pl, out0, invoked, None, None, id,
                 TRUE, FALSE, pre, controls2[id].st)

(* ... the callbacks have run; feedback only if the control requires it *)
after_update(id, hook, out0, controls2, invoked, pre) ==
    IF Escaped(invoked)
    THEN Handled(controls2, hook.pl, out0, invoked, "Exception", None, id,
                 TRUE, FALSE, pre, controls2[id].st)
    ELSE IF ~controls2[id].def.capabilities.requires_feedback
    THEN Handled(controls2, hook.pl, out0, invoked, None, None, id,
                 TRUE, FALSE, pre, controls2[id].st)
    ELSE after_callbacks(id, hook, out0, controls2, invoked, pre,
                         translate_feedback(plugin, hook.pl, id,
                                            StateDictOf(controls2[id].st)))

(* ... unpacking the hook's result, the state write and the callbacks *)
after_hook(res, hook, out0) ==
    CASE hook.kind = "AttributeError" ->
           Handled(ctl, hook.pl, out0, <<>>, "AttributeError", None, res.control_id,
                   FALSE, FALSE, ctl[res.control_id].st, ctl[res.control_id].st)
      [] hook.kind = "bare_none" ->
           Handled(ctl, hook.pl, out0, <<>>, "TypeError", None, res.control_id,
                   FALSE, FALSE, ctl[res.control_id].st, ctl[res.control_id].st)
      [] hook.kind = "bare_state" ->
           Handled(ctl, hook.pl, out0, <<>>, None, "ValueError", res.control_id,
                   FALSE, FALSE, ctl[res.control_id].st, ctl[res.control_id].st)
      [] OTHER ->
           after_update(res.control_id, hook, out0,
                        IF hook.has_state
                        THEN set_control_state(ctl, res.control_id, hook.st)
                        ELSE update_state(ctl, res.control_id, res.value),
                        IF hook.trigger
                        THEN on_control_change(cbs, res.control_id,
                                               ctl[res.control_id].def.control_type,
                                               res.signal_type,
                                               ctl[res.control_id].def.category)
                        ELSE <<>>,
                        ctl[res.control_id].st)

(* ... the translated input, the control lookup and the hook *)
after_translate(tr) ==
    [(IF ~tr.result.hit \/ tr.result.control_id \notin DOMAIN ctl
      THEN Handled(ctl, tr.pl, send_messages(tr.sends), <<>>, None, None, None,
                   FALSE, FALSE, NoState, NoState)
      ELSE after_hook(tr.result,
                      compute_control_state(plugin, tr.pl, tr.result.control_id,
                                            tr.result.value, tr.result.signal_type,
                                            ctl[tr.result.control_id].st,
                                            ctl[tr.result.control_id].def),
                      send_messages(tr.sends)))
        EXCEPT !.taken = tr.taken]

(* A handler that notes the bank switch and goes on to translate_input *)
on_midi_message_through(msg) ==
    IF ~state
    THEN Handled(ctl, pl, <<>>, <<>>, None, None, None, FALSE, FALSE, NoState, NoState)
    ELSE [after_translate(translate_input(plugin, pl, msg))
             EXCEPT !.active_banks = IF translate_bank_switch(plugin, msg) # None
                                     THEN set_active_bank(plugin, active_banks, "toggle",
                                                          translate_bank_switch(plugin, msg))
                                     ELSE @,
                    !.bank_id = translate_bank_switch(plugin, msg)]

on_midi_message(msg) ==
    IF ~state
    THEN Handled(ctl, pl, <<>>, <<>>, None, None, None, FALSE, FALSE, NoState, NoState)
    ELSE IF translate_bank_switch(plugin, msg) # None
    THEN [Handled(ctl, pl, <<>>, on_bank_change(cbs, "toggle"),
                  None, None, None, FALSE, FALSE, NoState, NoState)
             EXCEPT !.active_banks = set_active_bank(plugin, active_banks, "toggle",
                                                     translate_bank_switch(plugin, msg)),
                    !.bank_id = translate_bank_switch(plugin, msg)]
    ELSE after_translate(translate_input(plugin, pl, msg))

----------------------------------------------------------------------------
(* Configuration.  A ControllerConfig here is a flat config with the one    *)
(* entry "pad_*", or no config at all.                                      *)

ControlConfig(present, ty, col, off) ==
    [present |-> present, type |-> ty, color |-> col, off_color |-> off]

Configs == { ControlConfig(FALSE, "toggle", None, None),
             ControlConfig(TRUE, "toggle", "green", "off"),
             ControlConfig(TRUE, "momentary", "red", None) }

validate_supported(requested_type, d) ==
    IF d.type_modes = {} THEN requested_type = d.control_type
    ELSE requested_type \in d.type_modes

(* ControlConfigResolver.resolve_config for one definition *)
resolve_config(cfg, p, d) ==
    IF cfg.present /\ d.control_id = PadId(p)
    THEN [raises |-> IF validate_supported(cfg.type, d) THEN None ELSE "CapabilityError",
          control_type |-> cfg.type, on_color |-> cfg.color, off_color |-> cfg.off_color]
    ELSE [raises |-> None, control_type |-> d.control_type,
          on_color |-> None, off_color |-> None]

(* Controller._create_control: the resolved definition and a fresh control *)
create_control(cfg, p, d) ==
    LET r == resolve_config(cfg, p, d)
        resolved == [d EXCEPT !.control_type = r.control_type,
                              !.on_color = r.on_color, !.off_color = r.off_color]
    IN  [raises |-> r.raises, control |-> [def |-> resolved, st |-> InitialState(resolved)]]

(* The registration loop of connect(): controls are registered in           *)
(* definition order until one cannot be created                             *)
RECURSIVE register_controls(_, _, _, _)
register_controls(cfg, p, defs, controls) ==
    IF defs = <<>> THEN [raises |-> None, ctl |-> controls]
    ELSE LET c == create_control(cfg, p, Head(defs))
         IN  IF c.raises # None THEN [raises |-> c.raises, ctl |-> controls]
             ELSE register_controls(cfg, p, Tail(defs),
                                    Put(controls, Head(defs).control_id, c.control))

----------------------------------------------------------------------------
(* What the hardware can emit, per plugin *)

(* The APC mini MK2's answer to the introduction message:                  *)
(* 47 7F 4F 61 00 09 and the positions of the nine faders                   *)
IntroResponse ==
    [Msg("sysex", 0, 0, 0) EXCEPT
        !.data = << 71, 127, 79, 97, 0, 9, 0, 16, 32, 48, 64, 80, 96, 112, 127 >>]

DeviceMessages(p) ==
    CASE p \in {"example_pad", "banked"} ->
           { Msg("note_on", 0, 36, 100), Msg("note_on", 0, 36, 0),
             Msg("control_change", 0, 1, 64), Msg("note_on", 0, 52, 127),
             Msg("note_on", 0, 52, 0), Msg("note_on", 0, 99, 127) }
      [] p = "apc" ->
           { Msg("note_on", 0, 0, 127), Msg("note_on", 0, 0, 100), Msg("note_on", 0, 0, 0),
             Msg("note_off", 0, 0, 0), Msg("control_change", 0, 48, 64),
             IntroResponse }
      [] p = "atom" ->
           { Msg("note_on", 0, 36, 100), Msg("note_on", 0, 36, 0),
             Msg("note_off", 0, 36, 0), Msg("control_change", 0, 14, 1),
             Msg("control_change", 0, 14, 65) }
      [] p = "xtouch" ->
           { Msg("note_on", 10, 8, 127), Msg("note_on", 10, 8, 0),
             Msg("note_off", 10, 8, 0), Msg("control_change", 10, 1, 64) }
      [] p = "xjam" ->
           { Msg("note_on", 0, 35, 100), Msg("note_on", 0, 35, 0),
             Msg("control_change", 0, 28, 64) }
      [] p = "lpd8" ->
           { Msg("note_on", 1, 36, 100), Msg("note_on", 0, 36, 100),
             Msg("note_on", 1, 36, 0), Msg("control_change", 1, 1, 64),
             Msg("note_on", 9, 36, 100) }

----------------------------------------------------------------------------
(* Ghost records *)

NoFields == StateDict({}, None, NoValue, None)

(* The LED plane a message puts the pad in: note-ons on channels 7..10      *)
(* pulse, on 11..15 blink; the solid channels and the RGB SysEx are solid   *)
PlaneOf(msg) ==
    IF msg.type = "note_on" /\ msg.channel \in 7..10 THEN "pulse"
    ELSE IF msg.type = "note_on" /\ msg.channel \in 11..15 THEN "blink"
    ELSE "solid"

(* The plane of the last message emitted for the pad *)
PlaneAfter(msgs, before) ==
    IF msgs = <<>> THEN before ELSE PlaneOf(msgs[Len(msgs)])

Call(op, id, f, result, asked, exc, sent, snapshot) ==
    [op |-> op, control_id |-> id, fields |-> f, result |-> result,
     asked |-> asked, raised |-> exc, sent |-> sent, snapshot |-> snapshot,
     was_connected |-> connected, at |-> arrived,
     tracked |-> Get(pl.current_pad_modes, "pad_0_0", "solid"), led_mode |-> NoLEDMode,
     answered |-> FALSE, returned |-> None, prev |-> None, arg |-> None, shut |-> FALSE,
     last_set |-> api.last_set, plane |-> api.plane, plane_was |-> api.plane]

NoCall == [op |-> None, control_id |-> None, fields |-> NoFields, result |-> FALSE,
           asked |-> FALSE, raised |-> None, sent |-> <<>>, snapshot |-> <<>>,
           was_connected |-> FALSE, at |-> 0, tracked |-> "solid", led_mode |-> NoLEDMode,
           answered |-> FALSE, returned |-> None, prev |-> None, arg |-> None,
           shut |-> FALSE, last_set |-> [id |-> None, color |-> None, delivered |-> 0],
           plane |-> "solid", plane_was |-> "solid"]

NoEvent == [seq |-> 0, msg |-> Msg(None, 0, 0, 0), h |-> Handled(<<>>, PluginAttrs, <<>>, <<>>,
            None, None, None, FALSE, FALSE, NoState, NoState), draining |-> FALSE,
            port_open |-> FALSE, def |-> Def(None, None, None, {}, Caps(FALSE, FALSE, FALSE, {})),
            cbs |-> NoCallbacks, was_bank |-> None, signal_type |-> None,
            turned |-> 0, turned_min |-> 0, turned_max |-> 0]

ZeroTally == [accepted |-> 0, changed |-> 0, fb_calls |-> 0, out |-> 0]

(* The state after Controller(plugin, config, strict_mode) is constructed,   *)
(* together with what the environment is going to do                        *)
Constructed(p, dev, b, c, r) ==
    /\ plugin = p
    /\ connected = FALSE
    /\ midi = FALSE
    /\ state = FALSE
    /\ active_banks = <<>>
    /\ ctl = <<>>
    /\ cbs = NoCallbacks
    /\ pl = PluginAttrs
    /\ input_port = FALSE
    /\ output_port = FALSE
    /\ running = FALSE
    /\ thread = FALSE
    /\ queue = <<>>
    /\ dropped = 0
    /\ processed = 0
    /\ pc = "idle"
    /\ count = 0
    /\ device = dev
    /\ budget = b
    /\ calls = c
    /\ regs = r
    /\ arrived = 0
    /\ enq = <<>>
    /\ deliv = <<>>
    /\ ev = NoEvent
    /\ tally = [id \in ControlIds(p) |-> ZeroTally]
    /\ api = NoCall

Init ==
    /\ strict_mode \in BOOLEAN
    /\ config \in Configs
    /\ \E p \in Plugins : Constructed(p, DeviceMessages(p), MaxArrivals, MaxCalls, 0)

----------------------------------------------------------------------------
(* plugin.init(send_message, receive_message): attributes set, messages     *)
(* sent, values discovered; the APC reads one message off the queue         *)

Inited(pls, sends, discovered, q) ==
    [pl |-> pls, sends |-> sends, discovered |-> discovered, queue |-> q]

(* APCminiMK2IntroResponse.from_sysex_data and the loop over                *)
(* fader_positions in init: fader id -> position, empty when the header is  *)
(* not the one expected                                                     *)
FaderIds == << "fader_1", "fader_2", "fader_3", "fader_4", "fader_5", "fader_6",
               "fader_7", "fader_8", "fader_9" >>

from_sysex_data(data) ==
    IF Len(data) >= 15 /\ data[1] = 71 /\ data[3] = 79 /\ data[4] = 97
    THEN LET fader_positions == SubSeq(data, 7, 15)
         IN  [id \in Range(FaderIds) |->
                 fader_positions[CHOOSE i \in 1..9 : FaderIds[i] = id]]
    ELSE <<>>

plugin_init(p, pls, q) ==
    CASE p \in {"example_pad", "banked"} ->
           Inited(pls, << Msg("note_on", 0, 36, 0), Msg("note_on", 0, 52, 0) >>, <<>>, q)
      [] p = "apc" ->
           LET got == q # <<>>
               response == IF got THEN Head(q).msg ELSE Msg(None, 0, 0, 0)
               faders == IF got /\ response.type = "sysex"
                         THEN from_sysex_data(response.data) ELSE <<>>
           IN  Inited([pls EXCEPT !.current_pad_modes = <<>>],
                      << Msg("sysex", 0, 96, 0) >>, Put(faders, "pad_0_0", 0),
                      IF got THEN Tail(q) ELSE q)
      [] p = "atom" ->
           Inited([pls EXCEPT !.encoder_positions = Put(@, "encoder_1", EncoderCenter)],
                  << Msg("note_off", 15, 0, 127), Msg("note_on", 0, 36, 0),
                     Msg("note_on", 1, 36, 0), Msg("note_on", 2, 36, 0),
                     Msg("note_on", 3, 36, 0) >>, <<>>, q)
      [] p = "xtouch" ->
           Inited([pls EXCEPT !.has_send = TRUE, !.last_active_bank = "layer_a"],
                  << Msg("note_on", 10, 8, 0), Msg("control_change", 10, 1, 64) >>, <<>>, q)
      [] p = "xjam" ->
           Inited([pls EXCEPT !.has_send = TRUE, !.last_active_bank = "bank_1"],
                  << Msg("sysex", 0, 0, 0) >>, <<>>, q)
      [] p = "lpd8" ->
           LET got == q # <<>>
               response == IF got THEN Head(q).msg ELSE Msg(None, 0, 0, 0)
               program == IF got /\ response.type = "sysex" /\ response.val \in 1..2
                          THEN response.val ELSE 1
           IN  Inited([pls EXCEPT !.has_send = TRUE,
                                  !.last_active_bank = IF program = 2 THEN "bank_2" ELSE "bank_1"],
                      << Msg("sysex", 0, 4, 0), Msg("sysex", 0, 1, 0), Msg("sysex", 0, 1, 1) >>,
                      <<>>, IF got THEN Tail(q) ELSE q)

plugin_shutdown(p) ==
    CASE p \in {"example_pad", "banked"} -> << Msg("note_on", 0, 36, 0), Msg("note_on", 0, 52, 0) >>
      [] p = "apc" -> << Msg("note_on", 6, 0, 0), Msg("sysex", 0, 36, 0) >>
      [] p = "atom" -> << Msg("note_on", 0, 36, 0), Msg("note_on", 1, 36, 0),
                          Msg("note_on", 2, 36, 0), Msg("note_on", 3, 36, 0),
                          Msg("note_off", 15, 0, 0) >>
      [] p = "xtouch" -> << Msg("note_on", 10, 8, 0) >>
      [] p = "xjam" -> << Msg("sysex", 0, 0, 0) >>
      [] p = "lpd8" -> << Msg("sysex", 0, 1, 9), Msg("sysex", 0, 1, 9) >>

(* What shutdown() leaves in the plugin's attributes *)
shutdown_attrs(p, pls) ==
    IF p = "apc" THEN [pls EXCEPT !.current_pad_modes = <<>>] ELSE pls

(* connect(): discovered values are applied to the controls that exist *)
RECURSIVE apply_discovered(_, _, _)
apply_discovered(controls, discovered, ids) ==
    IF ids = {} THEN controls
    ELSE LET id == CHOOSE x \in ids : TRUE
             next == IF id \in DOMAIN controls
                     THEN update_state(controls, id, discovered[id]) ELSE controls
         IN  apply_discovered(next, discovered, ids \ {id})

(* connect(): initial LED state of every control with feedback and a        *)
(* configured off colour; stops at the first exception                      *)
RECURSIVE initial_feedback(_, _, _, _)
initial_feedback(p, pls, defs, controls) ==
    IF defs = <<>> THEN Feedback(None, <<>>)
    ELSE LET id == Head(defs).control_id
             rest == Tail(defs)
         IN  IF id \in DOMAIN controls
                /\ controls[id].def.capabilities.supports_feedback
                /\ controls[id].def.off_color # None
             THEN LET sd == StateDict({"is_on", "value", "color", "normalized_value",
                                       "led_mode", "definition_led_mode"},
                                      "False", 0, controls[id].def.off_color)
                      fb == translate_feedback(p, pls, id, sd)
                  IN  IF fb.raises # None THEN fb
                      ELSE LET more == initial_feedback(p, pls, rest, controls)
                           IN  Feedback(more.raises, fb.messages \o more.messages)
             ELSE initial_feedback(p, pls, rest, controls)

----------------------------------------------------------------------------
(* Controller.connect(), first half: the MIDIInterface is created and       *)
(* connected (ports open, input thread started), the state store is built   *)
(* and the controls are registered                                          *)
Registered(reg) ==
    /\ ctl' = reg.ctl
    /\ pc' = IF reg.raises = None THEN "connect" ELSE "idle"
    /\ api' = Call("connect", None, NoFields, FALSE, FALSE, reg.raises, <<>>, <<>>)

Connect ==
    /\ pc = "idle"
    /\ calls > 0
    /\ ~connected
    /\ ~midi
    /\ Registered(register_controls(config, plugin, get_control_definitions(plugin), <<>>))
    /\ midi' = TRUE
    /\ queue' = <<>>
    /\ dropped' = 0
    /\ processed' = 0
    /\ input_port' = TRUE
    /\ output_port' = TRUE
    /\ running' = TRUE
    /\ thread' = TRUE
    /\ state' = TRUE
    /\ active_banks' = <<>>
    /\ calls' = calls - 1
    /\ UNCHANGED <<plugin, strict_mode, config, connected, cbs, pl, count, device,
                   budget, regs, arrived, enq, deliv, ev, tally>>

(* Controller.connect(), second half: plugin.init, discovered values,       *)
(* initial LED states, and only then the connected flag                     *)
Initialised(ini, controls2, led) ==
    /\ pl' = ini.pl
    /\ queue' = ini.queue
    /\ ctl' = controls2
    /\ connected' = (led.raises = None)
    /\ api' = [api EXCEPT !.raised = led.raises,
                          !.sent = send_messages(ini.sends \o led.messages),
                          !.answered = \E i \in 1..Len(queue) : queue[i].msg = IntroResponse,
                          !.plane = "solid"]

Discovered(ini, controls2) ==
    Initialised(ini, controls2,
                initial_feedback(plugin, ini.pl, get_control_definitions(plugin), controls2))

InitDone(ini) ==
    Discovered(ini, apply_discovered(ctl, ini.discovered, DOMAIN ini.discovered))

ConnectInit ==
    /\ pc = "connect"
    /\ InitDone(plugin_init(plugin, pl, queue))
    /\ pc' = "idle"
    /\ UNCHANGED <<plugin, active_banks, strict_mode, config, midi, state, cbs, input_port, output_port,
                   running, thread, dropped, processed, count, device, budget, calls,
                   regs, arrived, enq, deliv, ev, tally>>

(* A LIFO queue, and a queue without maxsize *)
put_lifo(q, item) ==
    IF Len(q) >= QueueMaxSize THEN [full |-> TRUE, queue |-> q]
    ELSE [full |-> FALSE, queue |-> << item >> \o q]

put_unbounded(q, item) == [full |-> FALSE, queue |-> Append(q, item)]

(* queue.Queue(maxsize=1000): put_nowait appends unless the queue is full;  *)
(* get_nowait takes the oldest item and raises queue.Empty on an empty queue *)
put_nowait(q, item) ==
    IF Len(q) >= QueueMaxSize THEN [full |-> TRUE, queue |-> q]
    ELSE [full |-> FALSE, queue |-> Append(q, item)]

queue_empty(q) == q = <<>>

get_nowait(q) == [item |-> Head(q), queue |-> Tail(q)]

Put_(r, tag) ==
    /\ queue' = r.queue
    /\ enq' = IF r.full THEN enq ELSE Append(enq, tag)
    /\ dropped' = IF r.full THEN dropped + 1 ELSE dropped

(* An input loop that hands each message to the handler itself *)
InputLoopCalling ==
    /\ running /\ thread /\ input_port
    /\ budget > 0
    /\ \E msg \in device :
         /\ ctl' = on_midi_message(msg).ctl
         /\ pl' = on_midi_message(msg).pl
         /\ ev' = [ev EXCEPT !.seq = arrived + 1, !.msg = msg,
                             !.h = [on_midi_message(msg) EXCEPT !.ctl = <<>>,
                                                                !.pl = PluginAttrs]]
    /\ deliv' = Append(deliv, arrived + 1)
    /\ arrived' = arrived + 1
    /\ budget' = budget - 1
    /\ UNCHANGED <<plugin, active_banks, strict_mode, config, connected, midi, state, cbs,
                   input_port, output_port, running, thread, queue, dropped, processed,
                   pc, count, device, calls, regs, enq, tally, api>>

(* MIDIInterface._input_loop, one message of iter_pending(): put_nowait,    *)
(* or a counted drop when the queue is full                                 *)
InputLoop ==
    /\ running /\ thread /\ input_port
    /\ budget > 0
    /\ \E msg \in device :
         Put_(put_nowait(queue, [msg |-> msg, seq |-> arrived + 1]), arrived + 1)
    /\ arrived' = arrived + 1
    /\ budget' = budget - 1
    /\ UNCHANGED <<plugin, active_banks, strict_mode, config, connected, midi, state, ctl, cbs, pl,
                   input_port, output_port, running, thread, processed, pc, count,
                   device, calls, regs, deliv, ev, tally, api>>

(* Controller.process_events(): returns 0 without a MIDIInterface, else     *)
(* enters process_pending_messages                                          *)
ProcessEvents ==
    /\ pc = "idle"
    /\ count' = 0
    /\ pc' = IF midi THEN "process" ELSE "idle"
    /\ api' = Call("process_events", None, NoFields, FALSE, FALSE, None, <<>>, <<>>)
    /\ UNCHANGED <<plugin, active_banks, strict_mode, config, connected, midi, state, ctl, cbs, pl,
                   input_port, output_port, running, thread, queue, dropped, processed,
                   device, budget, calls, regs, arrived, enq, deliv, ev, tally>>

Bump(t, h) ==
    [accepted |-> t.accepted + (IF h.written THEN 1 ELSE 0),
     changed |-> t.changed + (IF h.written /\ (h.pre.is_on # h.post.is_on
                                               \/ h.pre.color # h.post.color)
                              THEN 1 ELSE 0),
     fb_calls |-> t.fb_calls + (IF h.fb_called THEN 1 ELSE 0),
     out |-> t.out + Len(h.out)]

(* The delta a handled message carried, 0 when it was no encoder turn *)
Delta(msg, h) ==
    IF h.written /\ translate_input(plugin, pl, msg).result.signal_type = "relative"
    THEN translate_input(plugin, pl, msg).result.value
    ELSE 0

(* process_pending_messages, one turn of the loop: get_nowait, the handler, *)
(* and the counters unless the handler threw                                *)
Delivered(item, h) ==
    /\ ctl' = h.ctl
    /\ cbs' = h.cbs
    /\ pl' = h.pl
    /\ active_banks' = h.active_banks
    /\ processed' = IF h.escapes = None THEN processed + 1 ELSE processed
    /\ count' = IF h.escapes = None THEN count + 1 ELSE count
    /\ deliv' = Append(deliv, item.seq)
    /\ ev' = [seq |-> item.seq, msg |-> item.msg,
              h |-> [h EXCEPT !.ctl = <<>>, !.pl = PluginAttrs],
              draining |-> pc = "drain", port_open |-> output_port,
              def |-> IF h.control_id \in DOMAIN ctl THEN ctl[h.control_id].def
                      ELSE NoEvent.def,
              cbs |-> cbs, was_bank |-> pl.last_active_bank,
              signal_type |-> IF state THEN translate_input(plugin, pl, item.msg).result.signal_type
                              ELSE None,
              turned |-> ev.turned + Delta(item.msg, h),
              turned_min |-> Min(ev.turned_min, ev.turned + Delta(item.msg, h)),
              turned_max |-> Max(ev.turned_max, ev.turned + Delta(item.msg, h))]
    /\ tally' = IF h.control_id \in DOMAIN tally
                THEN [tally EXCEPT ![h.control_id] = Bump(@, h)]
                ELSE tally

ProcessStep ==
    /\ pc \in {"process", "drain"}
    /\ ~queue_empty(queue)
    /\ \E h \in {on_midi_message(get_nowait(queue).item.msg)} :
         /\ Delivered(get_nowait(queue).item, h)
         /\ queue' = SubSeq(get_nowait(queue).queue, Len(h.taken) + 1,
                            Len(get_nowait(queue).queue))
    /\ UNCHANGED <<plugin, strict_mode, config, connected, midi, state, input_port,
                   output_port, running, thread, dropped, pc, device, budget, calls,
                   regs, arrived, enq, api>>

(* queue.Empty ends the loop: process_events returns the count, or          *)
(* disconnect() finishes (self._midi = None, self._connected = False)       *)
ProcessEnd ==
    /\ pc \in {"process", "drain"}
    /\ queue_empty(queue)
    /\ pc' = "idle"
    /\ midi' = IF pc = "drain" THEN FALSE ELSE midi
    /\ connected' = IF pc = "drain" THEN FALSE ELSE connected
    /\ api' = [api EXCEPT !.result = TRUE, !.at = arrived]
    /\ UNCHANGED <<plugin, active_banks, strict_mode, config, state, ctl, cbs, pl, input_port,
                   output_port, running, thread, queue, dropped, processed, count,
                   device, budget, calls, regs, arrived, enq, deliv, ev, tally>>

(* Controller.disconnect(): nothing when not connected; else                *)
(* plugin.shutdown, then MIDIInterface.disconnect stops the thread, closes  *)
(* both ports and drains the queue                                          *)
Disconnect ==
    /\ pc = "idle"
    /\ calls > 0
    /\ calls' = calls - 1
    /\ IF ~connected
       THEN /\ api' = Call("disconnect", None, NoFields, TRUE, FALSE, None, <<>>,
                           [i \in 1..Len(queue) |-> queue[i].seq])
            /\ UNCHANGED <<pc, running, thread, input_port, output_port, count, pl>>
       ELSE /\ pl' = IF midi THEN shutdown_attrs(plugin, pl) ELSE pl
            /\ api' = [Call("disconnect", None, NoFields, FALSE, FALSE, None,
                            IF midi THEN send_messages(plugin_shutdown(plugin)) ELSE <<>>,
                            [i \in 1..Len(queue) |-> queue[i].seq])
                       EXCEPT !.shut = midi,
                              !.plane = PlaneAfter(IF midi THEN plugin_shutdown(plugin)
                                                   ELSE <<>>, api.plane)]
            /\ running' = FALSE
            /\ thread' = FALSE
            /\ input_port' = FALSE
            /\ output_port' = FALSE
            /\ count' = 0
            /\ pc' = "drain"
    /\ UNCHANGED <<plugin, active_banks, strict_mode, config, connected, midi, state, ctl, cbs,
                   queue, dropped, processed, device, budget, regs, arrived, enq, deliv,
                   ev, tally>>

----------------------------------------------------------------------------
(* Programmatic state: set_state and can_set_state *)

FieldChoices ==
    { StateDict({"is_on"}, "True", NoValue, None),
      StateDict({"value"}, None, 64, None),
      StateDict({"color"}, None, NoValue, "red"),
      StateDict({"color"}, None, NoValue, "purple"),
      StateDict({"is_on", "color"}, "True", NoValue, "green"),
      StateDict({"is_on", "color"}, "False", NoValue, "red") }

(* A policy that only ever logs *)
log_unsupported_operation(strict) == None

(* Controller._handle_unsupported_operation: the exception it raises, if any *)
handle_unsupported_operation(strict) == IF strict THEN "CapabilityError" ELSE None

Outcome(exc, sent) == [raised |-> exc, sent |-> sent]

(* A guard that lets every call through *)
ensure_nothing == None

(* Controller._ensure_connected: the exception it raises, if any *)
ensure_connected == IF ~connected THEN "RuntimeError" ELSE None

translated(fb) ==
    IF fb.raises # None THEN Outcome(fb.raises, <<>>)
    ELSE Outcome(None, send_messages(fb.messages))

(* Controller.set_state: the exception that leaves it and what it sends *)
set_state(id, f) ==
    IF ensure_connected # None THEN Outcome(ensure_connected, <<>>)
    ELSE IF id \notin DOMAIN ctl THEN Outcome("ValueError", <<>>)
    ELSE IF ~ctl[id].def.capabilities.supports_feedback
    THEN Outcome(handle_unsupported_operation(strict_mode), <<>>)
    ELSE IF "value" \in f.keys /\ ~ctl[id].def.capabilities.supports_value_setting
    THEN Outcome(handle_unsupported_operation(strict_mode), <<>>)
    ELSE IF "color" \in f.keys /\ ~ctl[id].def.capabilities.supports_color
    THEN Outcome(handle_unsupported_operation(strict_mode), <<>>)
    ELSE IF "color" \in f.keys /\ ~validate_color(ctl, id, f.color)
    THEN Outcome(handle_unsupported_operation(strict_mode), <<>>)
    ELSE translated(translate_feedback(plugin, pl, id,
                        [f EXCEPT !.keys = @ \cup {"definition_led_mode"}]))

(* Controller.can_set_state *)
can_set_state(id, f) ==
    IF ~connected \/ ~state THEN FALSE
    ELSE IF id \notin DOMAIN ctl THEN FALSE
    ELSE IF ~ctl[id].def.capabilities.supports_feedback THEN FALSE
    ELSE IF "value" \in f.keys /\ ~ctl[id].def.capabilities.supports_value_setting THEN FALSE
    ELSE IF "color" \in f.keys /\ ~ctl[id].def.capabilities.supports_color THEN FALSE
    ELSE IF "color" \in f.keys /\ ~validate_color(ctl, id, f.color) THEN FALSE
    ELSE TRUE

CanSetState ==
    /\ pc = "idle"
    /\ calls > 0
    /\ calls' = calls - 1
    /\ \E id \in ControlIds(plugin), f \in FieldChoices :
         api' = Call("can_set_state", id, f, can_set_state(id, f), FALSE, None, <<>>, <<>>)
    /\ UNCHANGED <<plugin, active_banks, strict_mode, config, connected, midi, state, ctl, cbs, pl,
                   input_port, output_port, running, thread, queue, dropped, processed,
                   pc, count, device, budget, regs, arrived, enq, deliv, ev, tally>>

SetStateDone(id, f, o) ==
    api' = Call("set_state", id, f, FALSE,
                api.op = "can_set_state" /\ api.control_id = id /\ api.fields = f
                    /\ api.result,
                o.raised, o.sent, <<>>)

SetState ==
    /\ pc = "idle"
    /\ calls > 0
    /\ calls' = calls - 1
    /\ \E id \in ControlIds(plugin), f \in FieldChoices : SetStateDone(id, f, set_state(id, f))
    /\ UNCHANGED <<plugin, active_banks, strict_mode, config, connected, midi, state, ctl, cbs, pl,
                   input_port, output_port, running, thread, queue, dropped, processed,
                   pc, count, device, budget, regs, arrived, enq, deliv, ev, tally>>

(* Controller.set_states with one update.  No modelled plugin answers the   *)
(* call: translate_feedback_batch is missing from the base class, and the   *)
(* two that define it unpack three values from the controller's 2-tuples.   *)
translate_feedback_batch(p) ==
    IF p \in {"apc", "atom"} THEN "ValueError" ELSE "AttributeError"

set_states(id, f) ==
    IF ensure_connected # None THEN Outcome(ensure_connected, <<>>)
    ELSE IF id \notin DOMAIN ctl THEN Outcome("ValueError", <<>>)
    ELSE IF \/ ~ctl[id].def.capabilities.supports_feedback
            \/ "color" \in f.keys /\ ~ctl[id].def.capabilities.supports_color
            \/ "color" \in f.keys /\ ~validate_color(ctl, id, f.color)
            \/ "value" \in f.keys /\ ~ctl[id].def.capabilities.supports_value_setting
    THEN Outcome(handle_unsupported_operation(strict_mode), <<>>)
    ELSE Outcome(translate_feedback_batch(plugin), <<>>)

(* set_states: the update passed the checks of lines 556-586 and is handed  *)
(* to the plugin's batch method                                             *)
batch_validated(id, f) ==
    /\ ensure_connected = None
    /\ id \in DOMAIN ctl
    /\ ctl[id].def.capabilities.supports_feedback
    /\ "color" \in f.keys =>
          ctl[id].def.capabilities.supports_color /\ validate_color(ctl, id, f.color)
    /\ "value" \in f.keys => ctl[id].def.capabilities.supports_value_setting

(* reconfigure(): only the Xjam supports persistent configuration; its      *)
(* configure_programs enters config mode, writes the pad and commits        *)
reconfigure ==
    IF ensure_connected # None THEN Outcome(ensure_connected, <<>>)
    ELSE IF plugin # "xjam" THEN Outcome("NotImplementedError", <<>>)
    ELSE IF ~config.present THEN Outcome(None, <<>>)
    ELSE Outcome(None, send_messages(<< Msg("sysex", 0, 1, 0), Msg("sysex", 0, 2, 0),
                                        Msg("sysex", 0, 3, 0) >>))

(* get_state, get_all_states, get_active_bank and set_active_bank: each     *)
(* starts with _ensure_connected                                            *)
Queries == {"get_state", "get_all_states", "get_active_bank", "set_active_bank"}

query(op) == Outcome(ensure_connected, <<>>)

ControlTypes == {"toggle", "momentary", "continuous"}

BankIds == {"bank_1", "bank_2"}

Returned(op, id, f, o) ==
    api' = Call(op, id, f, o.raised = None, FALSE, o.raised, o.sent, <<>>)

Query ==
    /\ pc = "idle"
    /\ calls > 0
    /\ calls' = calls - 1
    /\ \/ \E op \in Queries, ctype \in ControlTypes, b \in BankIds :
             /\ api' = [Call(op, None, NoFields, query(op).raised = None, FALSE,
                             query(op).raised, <<>>, <<>>)
                        EXCEPT !.prev = api.op,
                               !.returned = IF op = "get_active_bank" /\ query(op).raised = None
                                            THEN get_active_bank(plugin, active_banks, ctype)
                                            ELSE None]
             /\ active_banks' = IF op = "set_active_bank" /\ query(op).raised = None
                                THEN set_active_bank(plugin, active_banks, ctype, b)
                                ELSE active_banks
       \/ /\ Returned("reconfigure", None, NoFields, reconfigure)
          /\ UNCHANGED active_banks
       \/ /\ \E id \in ControlIds(plugin), f \in FieldChoices :
                api' = [Call("set_states", id, f, set_states(id, f).raised = None, FALSE,
                             set_states(id, f).raised, set_states(id, f).sent, <<>>)
                        EXCEPT !.last_set = IF batch_validated(id, f) /\ "color" \in f.keys
                                            THEN [id |-> id, color |-> f.color,
                                                  delivered |-> Len(deliv)]
                                            ELSE @]
          /\ UNCHANGED active_banks
    /\ UNCHANGED <<plugin, strict_mode, config, connected, midi, state, ctl, cbs, pl,
                   input_port, output_port, running, thread, queue, dropped, processed,
                   pc, count, device, budget, regs, arrived, enq, deliv, ev, tally>>

----------------------------------------------------------------------------
(* Callback registration.  A callback's name is its registration number.    *)
(* The application registers its callbacks once connected, before the      *)
(* hardware sends anything.                                                 *)

Filters == {None, "note"}

NewCallback(sig, raises) == Callback(MaxCallbacks - regs + 1, sig, raises)

Registering ==
    /\ pc = "idle"
    /\ regs > 0
    /\ connected
    /\ arrived = 0
    /\ regs' = regs - 1
    /\ UNCHANGED <<plugin, active_banks, strict_mode, config, connected, midi, state, ctl, pl,
                   input_port, output_port, running, thread, queue, dropped, processed,
                   pc, count, device, budget, calls, arrived, enq, deliv, ev, tally, api>>

RegisterCallback ==
    /\ Registering
    /\ \E sig \in Filters, r \in BOOLEAN :
         cbs' = register_callback(cbs, PadId(plugin), NewCallback(sig, r))

RegisterCategoryCallback ==
    /\ Registering
    /\ \E r \in BOOLEAN :
         cbs' = register_category_callback(cbs, "pad", NewCallback(None, r))

RegisterTypeCallback ==
    /\ Registering
    /\ \E r \in BOOLEAN :
         cbs' = register_type_callback(cbs, "toggle", NewCallback(None, r))

RegisterGlobal ==
    /\ Registering
    /\ \E r \in BOOLEAN :
         cbs' = register_global(cbs, NewCallback(None, r))

(* on_control / on_global with a callback that calls back into the registry *)
Doings == {"on_global", "on_control", "off_self", "off_last"}

RegisterReentrant ==
    /\ Registering
    /\ \E d \in Doings :
         \/ cbs' = register_callback(cbs, PadId(plugin),
                                     [NewCallback(None, FALSE) EXCEPT !.does = d])
         \/ cbs' = register_global(cbs, [NewCallback(None, FALSE) EXCEPT !.does = d])

(* Controller.on_bank_change(control_type, callback) *)
RegisterBankCallback ==
    /\ Registering
    /\ \E r \in BOOLEAN :
         cbs' = register_bank(cbs, "toggle", NewCallback(None, r))

----------------------------------------------------------------------------
(* The inbound pipeline: connect, the input thread, polling, disconnect *)

Next ==
    \/ Connect
    \/ ConnectInit
    \/ InputLoop
    \/ ProcessEvents
    \/ ProcessStep
    \/ ProcessEnd
    \/ Disconnect

Spec == Init /\ [][Next]_vars

(* The programmatic path: connect, then can_set_state and set_state calls *)

InitApi ==
    /\ strict_mode \in BOOLEAN
    /\ config \in Configs
    /\ \E p \in Plugins : Constructed(p, {}, 0, MaxCalls + 1, 0)

NextApi ==
    \/ Connect
    \/ ConnectInit
    \/ CanSetState
    \/ SetState

SpecApi == InitApi /\ [][NextApi]_vars

(* The pad LED planes of the APC mini MK2.  The plugin's own feedback       *)
(* translation is called with a state and a definition whose LED mode is    *)
(* the one chosen; it answers with the messages and keeps the pad's mode.   *)
LedModes == { NoLEDMode, LEDMode("solid", 0), LEDMode("pulse", 0), LEDMode("blink", 0),
              LEDMode("blink", 8) }

PadColors == { None, "red", "black" }

GridWrite ==
    /\ pc = "idle"
    /\ calls > 0
    /\ connected
    /\ plugin = "apc"
    /\ calls' = calls - 1
    /\ \E on \in {"True", "False"}, col \in PadColors, m \in LedModes :
          LET d == [ctl["pad_0_0"].def EXCEPT !.on_led_mode = m, !.off_led_mode = m]
              r == apc_pad_feedback(pl, "pad_0_0", ControlState(TRUE, 0, on, col, None), d)
          IN  /\ pl' = r.pl
              /\ api' = [Call("translate_feedback", "pad_0_0",
                              StateDict({"is_on", "color"}, on, NoValue, col),
                              FALSE, FALSE, None, r.messages, <<>>)
                            EXCEPT !.led_mode = m,
                                   !.plane = PlaneAfter(r.messages, api.plane)]
    /\ UNCHANGED <<plugin, active_banks, strict_mode, config, connected, midi, state, ctl, cbs,
                   input_port, output_port, running, thread, queue, dropped, processed,
                   pc, count, device, budget, regs, arrived, enq, deliv, ev, tally>>

InitLed ==
    /\ strict_mode \in BOOLEAN
    /\ config \in Configs
    /\ Constructed("apc", {}, 0, MaxCalls + 2, 0)

NextLed ==
    \/ Connect
    \/ ConnectInit
    \/ GridWrite
    \/ SetState
    \/ Disconnect
    \/ ProcessEnd

SpecLed == InitLed /\ [][NextLed]_vars

(* The application's calls over the life of a controller: connect, queries *)
(* and writes, disconnect, in any order                                     *)
InitLife ==
    /\ strict_mode \in BOOLEAN
    /\ config \in Configs
    /\ \E p \in Plugins : Constructed(p, {}, 0, MaxCalls + 2, 0)

NextLife ==
    \/ Connect
    \/ ConnectInit
    \/ Query
    \/ SetState
    \/ Disconnect
    \/ ProcessEnd

SpecLife == InitLife /\ [][NextLife]_vars

(* Banks: the LPD8 MK2 is connected, the application registers bank-change *)
(* and control callbacks, pads of either bank are played                    *)
InitBank ==
    /\ strict_mode = FALSE
    /\ config = ControlConfig(FALSE, "toggle", None, None)
    /\ \E p \in {"lpd8", "banked"} : Constructed(p, DeviceMessages(p), MaxArrivals, 1, 2)

NextBank ==
    \/ Connect
    \/ ConnectInit
    \/ RegisterBankCallback
    \/ RegisterGlobal
    \/ InputLoop
    \/ ProcessEvents
    \/ ProcessStep
    \/ ProcessEnd

SpecBank == InitBank /\ [][NextBank]_vars

(* An endless encoder of the ATOM is turned either way, slowly and fast     *)
EncoderTurns == {Msg("control_change", 0, 14, v) : v \in {0, 1, 63, 64, 65, 127}}

InitEncoder ==
    /\ strict_mode = FALSE
    /\ config = ControlConfig(FALSE, "toggle", None, None)
    /\ Constructed("atom", EncoderTurns, MaxTurns, 1, 0)

NextEncoder ==
    \/ Connect
    \/ ConnectInit
    \/ InputLoop
    \/ ProcessEvents
    \/ ProcessStep
    \/ ProcessEnd

SpecEncoder == InitEncoder /\ [][NextEncoder]_vars

(* Batch writes and the pad: the application writes states in a batch, the *)
(* pad of the example controller is pressed, the application polls          *)
InitBatch ==
    /\ strict_mode = FALSE
    /\ config \in Configs
    /\ Constructed("example_pad", {Msg("note_on", 0, 36, 100)}, 1, MaxCalls, 0)

NextBatch ==
    \/ Connect
    \/ ConnectInit
    \/ Query
    \/ InputLoop
    \/ ProcessEvents
    \/ ProcessStep
    \/ ProcessEnd

SpecBatch == InitBatch /\ [][NextBatch]_vars

(* The resolver on its own: the definitions of a plugin are resolved        *)
(* against one configuration, any of them any number of times               *)
InitResolve ==
    /\ strict_mode \in BOOLEAN
    /\ config \in Configs
    /\ \E p \in Plugins : Constructed(p, {}, 0, MaxCalls + 1, 0)

(* A resolver that forgets the entry it has just served *)
ResolveOnce ==
    /\ calls > 0
    /\ calls' = calls - 1
    /\ \E d \in Range(get_control_definitions(plugin)) :
         api' = [Call("resolve_config", d.control_id, NoFields, TRUE, FALSE,
                      resolve_config(config, plugin, d).raises, <<>>, <<>>)
                 EXCEPT !.returned = resolve_config(config, plugin, d),
                        !.prev = IF api.op = None THEN None ELSE api.control_id]
    /\ config' = ControlConfig(FALSE, "toggle", None, None)
    /\ UNCHANGED <<plugin, active_banks, strict_mode, connected, midi, state, ctl, cbs,
                   pl, input_port, output_port, running, thread, queue, dropped, processed,
                   pc, count, device, budget, regs, arrived, enq, deliv, ev, tally>>

(* ControlConfigResolver.resolve_config(control_id, definition): reads the  *)
(* compiled tables and the definition, assigns to neither                   *)
Resolve ==
    /\ calls > 0
    /\ calls' = calls - 1
    /\ \E d \in Range(get_control_definitions(plugin)) :
         api' = [Call("resolve_config", d.control_id, NoFields, TRUE, FALSE,
                      resolve_config(config, plugin, d).raises, <<>>, <<>>)
                 EXCEPT !.returned = resolve_config(config, plugin, d),
                        !.prev = IF api.op = None THEN None ELSE api.control_id]
    /\ UNCHANGED <<plugin, active_banks, strict_mode, config, connected, midi, state, ctl, cbs,
                   pl, input_port, output_port, running, thread, queue, dropped, processed,
                   pc, count, device, budget, regs, arrived, enq, deliv, ev, tally>>

SpecResolve == InitResolve /\ [][Resolve]_vars

(* Colour conversions of the AKAI plugins on their own: the palette lookup  *)
(* of every palette row, and the byte split of colours whose channels each   *)
(* take every value of 0..255                                                *)
InitColor ==
    /\ strict_mode = FALSE
    /\ config = ControlConfig(FALSE, "toggle", None, None)
    /\ plugin = "apc" /\ connected = FALSE /\ midi = FALSE /\ state = FALSE
    /\ active_banks = <<>> /\ ctl = <<>> /\ cbs = NoCallbacks /\ pl = PluginAttrs
    /\ input_port = FALSE /\ output_port = FALSE /\ running = FALSE /\ thread = FALSE
    /\ queue = <<>> /\ dropped = 0 /\ processed = 0 /\ pc = "idle" /\ count = 0
    /\ device = {} /\ budget = 0 /\ calls = 1 /\ regs = 0 /\ arrived = 0
    /\ enq = <<>> /\ deliv = <<>> /\ ev = NoEvent
    /\ tally = [id \in ControlIds("apc") |-> ZeroTally]
    /\ \/ \E i \in 1..Len(COLOR_PALETTE) :
             api = [NoCall EXCEPT !.op = "find_nearest_palette_color",
                                  !.arg = COLOR_PALETTE[i].velocity]
       \/ \E v \in 0..255 :
             api = [NoCall EXCEPT !.op = "to_sysex_bytes",
                                  !.arg = << v, 255 - v, (7 * v) % 256 >>]

FindNearest ==
    /\ api.op = "find_nearest_palette_color"
    /\ calls > 0
    /\ calls' = calls - 1
    /\ api' = [api EXCEPT !.result = TRUE,
                          !.returned = find_nearest_palette_color(COLOR_PALETTE[api.arg + 1].rgb)]
    /\ UNCHANGED <<plugin, active_banks, strict_mode, config, connected, midi, state, ctl, cbs,
                   pl, input_port, output_port, running, thread, queue, dropped, processed,
                   pc, count, device, budget, regs, arrived, enq, deliv, ev, tally>>

ToSysexBytes ==
    /\ api.op = "to_sysex_bytes"
    /\ calls > 0
    /\ calls' = calls - 1
    /\ api' = [api EXCEPT !.result = TRUE,
                          !.returned = [msb_lsb |-> to_sysex_bytes_msb_lsb(api.arg),
                                        split |-> to_sysex_bytes_split(api.arg)]]
    /\ UNCHANGED <<plugin, active_banks, strict_mode, config, connected, midi, state, ctl, cbs,
                   pl, input_port, output_port, running, thread, queue, dropped, processed,
                   pc, count, device, budget, regs, arrived, enq, deliv, ev, tally>>

NextColor ==
    \/ FindNearest
    \/ ToSysexBytes

SpecColor == InitColor /\ [][NextColor]_vars

(* The application polls once the hardware has sent all it is going to      *)
(* send, until the first message is delivered                               *)
PollAfterBurst ==
    /\ budget = 0
    /\ deliv = <<>>
    /\ ProcessEvents

(* Callback dispatch: the application connects, registers its callbacks,    *)
(* the pad is pressed, the application polls                                *)

PadPress(p) == IF p = "apc" THEN Msg("note_on", 0, 0, 127) ELSE Msg("note_on", 0, 36, 100)

InitDispatch ==
    /\ strict_mode = FALSE
    /\ config = ControlConfig(FALSE, "toggle", None, None)
    /\ \E p \in {"example_pad", "apc"} : Constructed(p, {PadPress(p)}, 1, 1, MaxCallbacks)

NextDispatch ==
    \/ Connect
    \/ ConnectInit
    \/ RegisterCallback
    \/ RegisterCategoryCallback
    \/ RegisterTypeCallback
    \/ RegisterGlobal
    \/ InputLoop
    \/ PollAfterBurst
    \/ ProcessStep
    \/ ProcessEnd

SpecDispatch == InitDispatch /\ [][NextDispatch]_vars

(* Callbacks that register and unregister callbacks while they run *)
InitReentrant ==
    /\ strict_mode = FALSE
    /\ config = ControlConfig(FALSE, "toggle", None, None)
    /\ Constructed("example_pad", {PadPress("example_pad")}, MaxArrivals, 1, 3)

NextReentrant ==
    \/ Connect
    \/ ConnectInit
    \/ RegisterReentrant
    \/ RegisterGlobal
    \/ InputLoop
    \/ ProcessEvents
    \/ ProcessStep
    \/ ProcessEnd

SpecReentrant == InitReentrant /\ [][NextReentrant]_vars

(* The grid controller's pad: callbacks registered, then presses and        *)
(* releases of the pad in any order                                         *)

GridRelease == Msg("note_on", 0, 0, 0)

InitGrid ==
    /\ strict_mode = FALSE
    /\ config = ControlConfig(FALSE, "toggle", None, None)
    /\ Constructed("apc", {PadPress("apc"), GridRelease}, MaxArrivals, 1, 2)

NextGrid ==
    \/ Connect
    \/ ConnectInit
    \/ RegisterCallback
    \/ RegisterCategoryCallback
    \/ RegisterTypeCallback
    \/ RegisterGlobal
    \/ InputLoop
    \/ ProcessEvents
    \/ ProcessStep
    \/ ProcessEnd

SpecGrid == InitGrid /\ [][NextGrid]_vars

(* A burst: the hardware sends all its messages before the application      *)
(* polls                                                                    *)

FloodSizes == (QueueMaxSize - FloodExtra .. QueueMaxSize + FloodExtra) \cup {FloodSize}

InitFlood ==
    /\ strict_mode = FALSE
    /\ config = ControlConfig(FALSE, "toggle", None, None)
    /\ \E n \in FloodSizes :
         Constructed("example_pad", {Msg("control_change", 0, 1, 64)}, n, 1, 0)

NextFlood ==
    \/ Connect
    \/ ConnectInit
    \/ InputLoop
    \/ PollAfterBurst
    \/ ProcessStep
    \/ ProcessEnd

SpecFlood == InitFlood /\ [][NextFlood]_vars

----------------------------------------------------------------------------
(* Properties *)

Changed(h) == h.pre.is_on # h.post.is_on \/ h.pre.color # h.post.color

TogglePadNoteOn ==
    /\ ev.seq > 0
    /\ ev.msg.type = "note_on"
    /\ ev.h.control_id = PadId(plugin)
    /\ ev.def.control_type = "toggle"

C3_ArrivalOrder ==
    /\ \A i, j \in 1..Len(deliv) : i < j => deliv[i] < deliv[j]
    /\ Range(deliv) \subseteq Range(enq)

C3_Witness ==
    /\ Len(deliv) >= 2
    /\ dropped = 0

DisconnectReturned == pc = "idle" /\ api.op = "disconnect" /\ api.result

(* C5: whatever was queued when disconnect was called has been handed to   *)
(* the handler when disconnect returns, and the queue is empty at that      *)
(* moment.                                                                  *)
C5_NothingLostAtDisconnect ==
    DisconnectReturned =>
        /\ Range(api.snapshot) \subseteq Range(deliv)
        /\ arrived = api.at => queue_empty(queue)

TierRank(t) ==
    CASE t = "control" -> 1
      [] t = "category" -> 2
      [] t = "type" -> 3
      [] OTHER -> 4

Accepts(c, sig) == c.signal_type = None \/ c.signal_type = sig

(* The callbacks registered when the event was dispatched that match it,    *)
(* as (tier rank, name) pairs                                               *)
Matching(e) ==
    {<<1, c.name>> : c \in {x \in Range(Get(e.cbs.control_callbacks, e.h.control_id, <<>>)) :
                               Accepts(x, e.signal_type)}}
    \cup {<<2, c.name>> : c \in {x \in Range(Get(e.cbs.category_callbacks, e.def.category, <<>>)) :
                               Accepts(x, e.signal_type)}}
    \cup {<<3, c.name>> : c \in {x \in Range(Get(e.cbs.type_callbacks, e.def.control_type, <<>>)) :
                               Accepts(x, e.signal_type)}}
    \cup {<<4, c.name>> : c \in {x \in Range(e.cbs.global_callbacks) :
                               Accepts(x, e.signal_type)}}

Invoked(e) == {<<TierRank(e.h.invoked[i].tier), e.h.invoked[i].name>> : i \in 1..Len(e.h.invoked)}

Unpermitted(d, f) ==
    \/ ~d.capabilities.supports_feedback
    \/ "value" \in f.keys /\ ~d.capabilities.supports_value_setting
    \/ "color" \in f.keys /\ ~d.capabilities.supports_color
    \/ "color" \in f.keys /\ d.capabilities.has_palette
                          /\ f.color \notin d.capabilities.color_palette

UnpermittedSetState ==
    /\ api.op = "set_state"
    /\ api.was_connected
    /\ api.control_id \in DOMAIN ctl
    /\ Unpermitted(ctl[api.control_id].def, api.fields)

GridPadReleased ==
    /\ ev.seq > 0
    /\ plugin = "apc"
    /\ ev.msg = GridRelease
    /\ ev.h.control_id = "pad_0_0"
    /\ ev.def.control_type = "toggle"

PadPrep == Msg("note_on", LED_CHANNEL_SOLID, 0, 0)

WrittenRGB(c) ==
    build_pad_rgb_sysex(0, from_string(IF c.fields.color # None THEN c.fields.color
                                       ELSE "off"))

C13_NoZeroVelocityOnAnimationChannels ==
    plugin = "apc" =>
        \A i \in 1..Len(api.sent) :
            ~(api.sent[i].type = "note_on" /\ api.sent[i].channel \in 7..15
              /\ api.sent[i].val = 0)

ContinuousCC ==
    /\ ev.seq > 0 /\ ev.h.written
    /\ ev.msg.type = "control_change" /\ ev.def.control_type = "continuous"

(* value == v and normalized_value == clamp((v - min)/(max - min), 0, 1),   *)
(* the fractions compared by cross-multiplication                           *)
StoredAsSent(e) ==
    LET value_range == e.def.max_value - e.def.min_value
        clamped == Max(0, Min(value_range, e.msg.val - e.def.min_value))
        n == e.h.post.normalized_value
    IN  /\ e.h.post.value = e.msg.val
        /\ n[2] > 0
        /\ n[1] * value_range = clamped * n[2]
        /\ 0 <= n[1] /\ n[1] <= n[2]

C16_FailedConnectLeavesNothing ==
    (pc = "idle" /\ api.op = "connect" /\ api.raised # None) =>
        ~connected /\ ~input_port /\ ~output_port /\ ~thread /\ ~running
GuardedOps == Queries \cup {"set_state", "set_states", "reconfigure"}

KeyMatched(e) ==
    {[rank |-> 1, cb |-> c] : c \in Range(Get(e.cbs.control_callbacks, e.h.control_id, <<>>))}
    \cup {[rank |-> 2, cb |-> c] : c \in Range(Get(e.cbs.category_callbacks, e.def.category, <<>>))}
    \cup {[rank |-> 3, cb |-> c] : c \in Range(Get(e.cbs.type_callbacks, e.def.control_type, <<>>))}
    \cup {[rank |-> 4, cb |-> c] : c \in Range(e.cbs.global_callbacks)}

EncoderTurned == plugin = "atom" /\ ev.seq > 0 /\ ev.h.control_id = "encoder_1" /\ ev.h.written

(* C24, as stated: when the running sum of the deltas stays in 0..127, the   *)
(* value reported for the encoder is that sum plus the initial 64.           *)
C24_SumOfDeltasPlusCenter ==
    (EncoderTurned /\ ev.turned_min >= 0 /\ ev.turned_max <= 127)
        => ev.h.post.value = ev.turned + EncoderCenter

(* C24, amended: when the initial 64 plus the running sum of the deltas      *)
(* stays in 0..127, the value reported for the encoder is 64 plus that sum.  *)
C24_PositionIsCenterPlusDeltas ==
    (/\ EncoderTurned
     /\ EncoderCenter + ev.turned_min >= 0
     /\ EncoderCenter + ev.turned_max <= 127)
        => ev.h.post.value = EncoderCenter + ev.turned

(* three turns that go up to the top, then down and up again *)
C24_Witness ==
    /\ EncoderTurned
    /\ Len(deliv) = 3
    /\ ev.turned_max = 63
    /\ ev.turned_min = 0
    /\ ev.turned = 1
    /\ ev.h.post.value = 65

NearestFound == api.op = "find_nearest_palette_color" /\ api.result

(* C25, as stated: the nearest-colour lookup of the exact RGB of palette     *)
(* entry i returns i, for every entry of the palette.                        *)
C25_NearestOfEntryIsEntry ==
    NearestFound => api.returned = api.arg

(* C25, amended: the lookup of the exact RGB of entry i returns the lowest   *)
(* index that carries that RGB: i itself, except for entry 67, which repeats *)
(* entry 45.                                                                 *)
C25_NearestOfEntryIsFirstEqual ==
    NearestFound =>
        /\ api.returned = IF api.arg = 67 THEN 45 ELSE api.arg
        /\ COLOR_PALETTE[api.returned + 1].rgb = COLOR_PALETTE[api.arg + 1].rgb
        /\ \A j \in 1..api.returned :
              COLOR_PALETTE[j].rgb # COLOR_PALETTE[api.arg + 1].rgb

C25_Witness ==
    /\ NearestFound
    /\ api.arg = 67
    /\ api.returned = 45
    /\ COLOR_PALETTE[68].rgb = << 0, 0, 255 >>

(* C26: for every r, g, b in 0..255 each of the six bytes of the split is   *)
(* in 0..127, and (msb << 7) | lsb gives back r, g and b.                    *)
C26_SplitRoundTrip ==
    (api.op = "to_sysex_bytes" /\ api.result) =>
        \A bytes \in {api.returned.msb_lsb, api.returned.split} :
            /\ Len(bytes) = 6
            /\ \A k \in 1..6 : bytes[k] \in 0..127
            /\ \A c \in 1..3 : bytes[2 * c - 1] * 128 + bytes[2 * c] = api.arg[c]

C26_Witness ==
    /\ api.op = "to_sysex_bytes" /\ api.result
    /\ api.arg = << 200, 55, 120 >>
    /\ api.returned.msb_lsb = << 1, 72, 0, 55, 0, 120 >>
    /\ api.returned.split = << 1, 72, 0, 55, 0, 120 >>

MomentaryEvent ==
    /\ ev.seq > 0
    /\ ev.h.written
    /\ ev.def.control_type = "momentary"

InvokedNames(e) == [i \in 1..Len(e.h.invoked) |-> e.h.invoked[i].name]

RECURSIVE accepted_names(_, _)
accepted_names(list, sig) ==
    IF list = <<>> THEN <<>>
    ELSE (IF Accepts(Head(list), sig) THEN << Head(list).name >> ELSE <<>>)
         \o accepted_names(Tail(list), sig)

(* The callbacks registered when the dispatch of the event began, tier by   *)
(* tier in registration order                                               *)
RegisteredAtStart(e) ==
    accepted_names(Get(e.cbs.control_callbacks, e.h.control_id, <<>>), e.signal_type)
    \o accepted_names(Get(e.cbs.category_callbacks, e.def.category, <<>>), e.signal_type)
    \o accepted_names(Get(e.cbs.type_callbacks, e.def.control_type, <<>>), e.signal_type)
    \o accepted_names(e.cbs.global_callbacks, e.signal_type)

DeferredPad == "pad_1@layer_a"

DeferredPadToggle ==
    /\ plugin = "xtouch"
    /\ ev.seq > 0
    /\ DeferredPad \in DOMAIN ctl
    /\ ctl[DeferredPad].def.control_type = "toggle"
    /\ ev.msg.channel = 10 /\ ev.msg.num = 8

AutoFeedback(e) ==
    IF e.seq > 0 /\ e.h.fb_called /\ e.h.escapes = None
    THEN translate_feedback(plugin, pl, e.h.control_id, StateDictOf(e.h.post)).messages
    ELSE <<>>

IntroQueuedBehind ==
    /\ plugin = "apc" /\ pc = "idle" /\ api.op = "connect" /\ connected
    /\ api.answered /\ deliv = <<>>
    /\ \E i \in 1..Len(queue) : queue[i].msg = IntroResponse

FirstSession == connected /\ calls = MaxCalls - 1

(* Messages that left the queue without being handed to the handler: the    *)
(* ones synchronous receive_message calls returned                          *)
SyncReceived == Len(enq) - Len(queue) - Len(deliv)

TrackedPlane == Get(pl.current_pad_modes, "pad_0_0", "solid")

SolidWrite ==
    /\ api.op = "translate_feedback"
    /\ api.led_mode = NoLEDMode \/ api.led_mode.animation_type = "solid"

====
